---- MODULE Spec2Model ----
(***************************************************************************)
(* Verification model of the per-camera stream lifecycle supervisor of     *)
(* command-center-vms-BE: the HLS service (RTSPService), its health        *)
(* monitor, the segment garbage collector, the WebRTC service with its     *)
(* frame demuxer and signaling handler, the MJPEG service and the adapter   *)
(* of the MediaMTX server.                                                 *)
(*                                                                         *)
(* Time is kept as ages (seconds elapsed since an event), saturating at    *)
(* the largest threshold the code compares against: the code only ever     *)
(* evaluates time.Since(x) against 20 s and 30 s.                          *)
(***************************************************************************)
EXTENDS Integers, Sequences, FiniteSets, TLC

VARIABLES
    activeStreams,  \* RTSPService.activeStreams: camera id -> StreamInfo pointer (0 = no key)
    streams,        \* heap of StreamInfo objects, by pointer
    cmds,           \* exec.Cmd objects with the goroutine that runs convertRTSPToHLS on each
    playlist,       \* per camera: age of the playlist file's modification time, -1 = no file
    mu,             \* RTSPService.mu: "free", or "tick" while checkStreamHealth holds it
    todo,           \* cameras the running checkStreamHealth loop has still to visit
    lastOp,         \* the call or step taken last, with what it returned and did
    fails,          \* per StreamInfo: restarts requested since creation or last healthy tick
    \* cleanupOldSegments, one run
    gcLines,        \* the playlist file: its lines, each with the segment it names
    gcDir,          \* names of the files in the segment directory
    gcPc,           \* position of cleanupOldSegments
    gcActive,       \* its activeSegments map
    gcFiles,        \* its directory listing
    gcRemoved,      \* the files it removed
    \* readAndSendVP8Frames, one run
    dmxInput,       \* what the transcoder wrote: header kind, records, bytes cut off the end
    dmxBytes,       \* the bytes of the transcoder's output not read yet
    dmxPc,          \* position of readAndSendVP8Frames
    dmxFrame,       \* frameSize and frameData of the current iteration
    dmxSink,        \* the calls of track.WriteSample so far: data, time, success
    dmxNow,         \* the clock, in nanoseconds
    dmxLast,        \* lastFrameTime
    \* WebRTCService
    wActive,        \* WebRTCService.activeStreams: camera id -> WebRTCStream pointer (0 = no key)
    wStreams,       \* heap of WebRTCStream objects with the goroutines started for each
    wSess,          \* per websocket connection: the run of HandleWebSocket and its peer connection
    wLast,          \* the call of the WebRTC service taken last, with what it returned and did
    \* MJPEGService
    mjActive,       \* MJPEGService.activeStreams: camera id -> MJPEGStream pointer (0 = no key)
    mjStreams,      \* heap of MJPEGStream objects
    mjReaders,      \* the commands started by GetStreamReader, each with its mjpegReader
    mjLast,         \* the call of the MJPEG service taken last
    \* MediaMTXService
    activePaths,    \* MediaMTXService.activePaths: camera id -> path name (<<>> = no key)
    mtxRemote,      \* path names configured on the MediaMTX server
    mtxHealth,      \* the GetStreamHealth call in progress
    mtxLast,        \* the last MediaMTXService call and what it returned
    \* the transcoder, as cleanupOldSegments meets it
    ffWriting       \* the segment file ffmpeg has written and not yet put in the playlist

hlsVars == <<activeStreams, streams, cmds, playlist, mu, todo, lastOp, fails>>
gcVars == <<gcLines, gcDir, gcPc, gcActive, gcFiles, gcRemoved>>
dmxVars == <<dmxInput, dmxBytes, dmxPc, dmxFrame, dmxSink, dmxNow, dmxLast>>

wVars == <<wActive, wStreams, wSess, wLast>>

mjVars == <<mjActive, mjStreams, mjReaders, mjLast>>

mtxVars == <<activePaths, mtxRemote, mtxHealth, mtxLast>>

ffVars == <<ffWriting>>

vars == <<hlsVars, gcVars, dmxVars, wVars, mjVars, mtxVars, ffVars>>

(* what the actions of one component leave alone *)
NotHLS == <<gcVars, dmxVars, wVars, mjVars, mtxVars, ffVars>>
NotGC == <<hlsVars, dmxVars, wVars, mjVars, mtxVars, ffVars>>
NotDmx == <<hlsVars, gcVars, wVars, mjVars, mtxVars, ffVars>>
NotW == <<hlsVars, gcVars, dmxVars, mjVars, mtxVars, ffVars>>
NotMj == <<hlsVars, gcVars, dmxVars, wVars, mtxVars, ffVars>>
NotMtx == <<hlsVars, gcVars, dmxVars, wVars, mjVars, ffVars>>
NotGCFf == <<hlsVars, dmxVars, wVars, mjVars, mtxVars>>

----------------------------------------------------------------------------
(* Bounds of the model *)

MaxStreams == 2
MaxCmds == 2
TimeStep == 5
MaxRecords == 3
MaxCut == 2
MaxWStreams == 2
MaxConns == 1
MaxMjStreams == 2
MaxReaders == 2
SlowRead == 40000000

(* Constants of the program *)

MaxRestartAttempts == 5
StaleAfter == 20
GracePeriod == 30
ReadyRetries == 10

Cameras == {7}
RTSPURLs == {"rtsp://cam7", "rtsp://cam7-different-url"}

StreamIds == 1..MaxStreams
CmdIds == 1..MaxCmds
AgeCap == GracePeriod

Min(a, b) == IF a < b THEN a ELSE b

Older(age) == IF age < 0 THEN age ELSE Min(age + TimeStep, AgeCap)

----------------------------------------------------------------------------
(* Data model *)

NoStream ==
    [CameraID |-> 0, RTSPURL |-> "", HLSURL |-> <<>>, FFmpegCmd |-> 0,
     LastUpdate |-> 0, RestartCount |-> 0, IsHealthy |-> FALSE]

NoCmd == [stream |-> 0, camera |-> 0, pc |-> "free", proc |-> "nil", exitErr |-> FALSE]

HLSURLFor(c) == <<"StreamPath", "camera", c, "playlist.m3u8">>

(* op, cam, url: the call and its arguments; ret: what it returned; existed:
   the camera had an entry; kill: outcome of Process.Kill in StopStream; for
   one iteration of the checkStreamHealth loop, proc: the state of the entry's
   process when it began, verdict: the branch taken, kills, restarts, spawned:
   calls of Process.Kill and restartStreamUnsafe and goroutines started; chain:
   how far the calls so far follow start, start with another URL, stop *)
NoOp ==
    [op |-> "init", cam |-> 0, url |-> "", ret |-> <<>>, existed |-> FALSE, kill |-> "none",
     proc |-> "nil", verdict |-> "none", kills |-> 0, restarts |-> 0, spawned |-> 0,
     chain |-> 0]

ProcessSet(cm, t) == t # 0 /\ cm[t].proc # "nil"

(* os.Process.Kill: delivers SIGKILL to a running process; succeeds without
   effect on a process that has exited but was not waited on; fails once the
   process has been waited on. *)
KillResult(cm, t) == IF cm[t].proc = "reaped" THEN "err" ELSE "ok"

Killed(cm, t) ==
    IF cm[t].proc = "running"
    THEN [cm EXCEPT ![t].proc = "exited", ![t].exitErr = TRUE]
    ELSE cm

FreeCmds(cm) == {t \in CmdIds : cm[t].pc = "free"}

FreeStreams(st) == {s \in StreamIds : st[s] = NoStream}

Lowest(S) == CHOOSE x \in S : \A y \in S : x <= y

(* Objects nothing refers to any more are reclaimed: a StreamInfo is live while
   the registry or an unfinished goroutine holds it, an exec.Cmd while its
   goroutine is unfinished or a live StreamInfo points at it. *)
LiveStreams(reg, cm) ==
    {s \in StreamIds :
        \/ \E c \in Cameras : reg[c] = s
        \/ \E t \in CmdIds : cm[t].pc \notin {"free", "done"} /\ cm[t].stream = s}

LiveCmds(reg, st, cm) ==
    {t \in CmdIds :
        \/ cm[t].pc \notin {"free", "done"}
        \/ \E s \in LiveStreams(reg, cm) : st[s].FFmpegCmd = t}

Commit(reg, st, cm, fl) ==
    /\ activeStreams' = reg
    /\ streams' = [s \in StreamIds |-> IF s \in LiveStreams(reg, cm) THEN st[s] ELSE NoStream]
    /\ cmds' = [t \in CmdIds |-> IF t \in LiveCmds(reg, st, cm) THEN cm[t] ELSE NoCmd]
    /\ fails' = [s \in StreamIds |-> IF s \in LiveStreams(reg, cm) THEN fl[s] ELSE 0]

----------------------------------------------------------------------------
HLSInit ==
    /\ activeStreams = [c \in Cameras |-> 0]
    /\ streams = [s \in StreamIds |-> NoStream]
    /\ cmds = [t \in CmdIds |-> NoCmd]
    /\ playlist = [c \in Cameras |-> -1]
    /\ mu = "free"
    /\ todo = {}
    /\ lastOp = NoOp
    /\ fails = [s \in StreamIds |-> 0]

----------------------------------------------------------------------------
(* RTSPService.StartStream *)

NewStream(c, u) ==
    [CameraID |-> c, RTSPURL |-> u, HLSURL |-> HLSURLFor(c), FFmpegCmd |-> 0,
     LastUpdate |-> 0, RestartCount |-> 0, IsHealthy |-> FALSE]

NewCmd(s, c) == [stream |-> s, camera |-> c, pc |-> "lookpath", proc |-> "nil", exitErr |-> FALSE]

StartFindsEntryNever(c) == FALSE

StartFindsEntry(c) == activeStreams[c] # 0

StartStream(c, u) ==
    /\ mu = "free"
    /\ IF StartFindsEntry(c)
       THEN /\ lastOp' = [NoOp EXCEPT !.op = "StartStream", !.cam = c, !.url = u,
                                      !.existed = TRUE,
                                      !.ret = streams[activeStreams[c]].HLSURL,
                                      !.chain = IF /\ lastOp.chain = 1
                                                   /\ lastOp.cam = c
                                                   /\ lastOp.url # u
                                                THEN 2 ELSE 0]
            /\ UNCHANGED <<activeStreams, streams, cmds, fails, playlist, mu, todo, NotHLS>>
       ELSE /\ FreeStreams(streams) # {}
            /\ FreeCmds(cmds) # {}
            /\ LET s == Lowest(FreeStreams(streams))
                   t == Lowest(FreeCmds(cmds))
               IN  Commit([activeStreams EXCEPT ![c] = s],
                          [streams EXCEPT ![s] = NewStream(c, u)],
                          [cmds EXCEPT ![t] = NewCmd(s, c)],
                          [fails EXCEPT ![s] = 0])
            /\ lastOp' = [NoOp EXCEPT !.op = "StartStream", !.cam = c, !.url = u,
                                      !.ret = HLSURLFor(c), !.spawned = 1, !.chain = 1]
            /\ UNCHANGED <<playlist, mu, todo, NotHLS>>

(* os.MkdirAll fails: the call returns an error before anything is created *)
StartStreamMkdirFails(c, u) ==
    /\ mu = "free"
    /\ ~StartFindsEntry(c)
    /\ lastOp' = [NoOp EXCEPT !.op = "StartStream", !.cam = c, !.url = u,
                              !.ret = <<"", "error">>]
    /\ UNCHANGED <<activeStreams, streams, cmds, fails, playlist, mu, todo, NotHLS>>

----------------------------------------------------------------------------
(* RTSPService.convertRTSPToHLS, one goroutine per exec.Cmd *)

(* a step of a goroutine, of the transcoder process or of the clock *)
Step(name, c) == [NoOp EXCEPT !.op = "internal"]

(* exec.LookPath fails: the goroutine deletes the camera's key *)
KeyKept(reg, c) == reg

(* delete(s.activeStreams, cameraID) *)
KeyDeleted(reg, c) == [reg EXCEPT ![c] = 0]

LookPathFails(t) ==
    /\ cmds[t].pc = "lookpath"
    /\ mu = "free"
    /\ Commit(KeyDeleted(activeStreams, cmds[t].camera), streams,
              [cmds EXCEPT ![t].pc = "done"], fails)
    /\ lastOp' = [NoOp EXCEPT !.op = "lookPathFails", !.cam = cmds[t].camera]
    /\ UNCHANGED <<playlist, mu, todo, NotHLS>>

(* exec.LookPath succeeds, the command is built and streamInfo.FFmpegCmd = cmd
   is stored, without the lock *)
AssignCmd(t) ==
    /\ cmds[t].pc = "lookpath"
    /\ Commit(activeStreams, [streams EXCEPT ![cmds[t].stream].FFmpegCmd = t],
              [cmds EXCEPT ![t].pc = "start"], fails)
    /\ lastOp' = Step("assignCmd", cmds[t].camera)
    /\ UNCHANGED <<playlist, mu, todo, NotHLS>>

CmdStartOK(t) ==
    /\ cmds[t].pc = "start"
    /\ Commit(activeStreams, streams, [cmds EXCEPT ![t].pc = "mark", ![t].proc = "running"], fails)
    /\ lastOp' = Step("cmdStart", cmds[t].camera)
    /\ UNCHANGED <<playlist, mu, todo, NotHLS>>

CmdStartFails(t) ==
    /\ cmds[t].pc = "start"
    /\ mu = "free"
    /\ Commit(activeStreams, [streams EXCEPT ![cmds[t].stream].IsHealthy = FALSE],
              [cmds EXCEPT ![t].pc = "done"], fails)
    /\ lastOp' = Step("cmdStartFails", cmds[t].camera)
    /\ UNCHANGED <<playlist, mu, todo, NotHLS>>

StartedFields(st, s) ==
    [st EXCEPT ![s].IsHealthy = FALSE, ![s].RestartCount = 0, ![s].LastUpdate = 0]

MarkStartedNoWait(t) ==
    /\ cmds[t].pc = "mark"
    /\ mu = "free"
    /\ Commit(activeStreams, StartedFields(streams, cmds[t].stream),
              [cmds EXCEPT ![t].pc = "done"], fails)
    /\ lastOp' = Step("markStarted", cmds[t].camera)
    /\ UNCHANGED <<playlist, mu, todo, NotHLS>>

MarkStarted(t) ==
    /\ cmds[t].pc = "mark"
    /\ mu = "free"
    /\ Commit(activeStreams, StartedFields(streams, cmds[t].stream),
              [cmds EXCEPT ![t].pc = "wait"], fails)
    /\ lastOp' = Step("markStarted", cmds[t].camera)
    /\ UNCHANGED <<playlist, mu, todo, NotHLS>>

(* The same step in src/services/rtsp_service.go, which marks the entry
   healthy as soon as the process has started *)
StartedFieldsServices(st, s) ==
    [st EXCEPT ![s].IsHealthy = TRUE, ![s].RestartCount = 0]

MarkStartedServices(t) ==
    /\ cmds[t].pc = "mark"
    /\ mu = "free"
    /\ Commit(activeStreams, StartedFieldsServices(streams, cmds[t].stream),
              [cmds EXCEPT ![t].pc = "wait"], fails)
    /\ lastOp' = Step("markStarted", cmds[t].camera)
    /\ UNCHANGED <<playlist, mu, todo, NotHLS>>

(* cmd.Wait returns once the process has ended *)
WaitReturns(t) ==
    /\ cmds[t].pc = "wait"
    /\ cmds[t].proc = "exited"
    /\ Commit(activeStreams, streams,
              [cmds EXCEPT ![t].proc = "reaped",
                           ![t].pc = IF cmds[t].exitErr THEN "exitmark" ELSE "done"], fails)
    /\ lastOp' = Step("waitReturns", cmds[t].camera)
    /\ UNCHANGED <<playlist, mu, todo, NotHLS>>

MarkExited(t) ==
    /\ cmds[t].pc = "exitmark"
    /\ mu = "free"
    /\ Commit(activeStreams, [streams EXCEPT ![cmds[t].stream].IsHealthy = FALSE],
              [cmds EXCEPT ![t].pc = "done"], fails)
    /\ lastOp' = Step("markExited", cmds[t].camera)
    /\ UNCHANGED <<playlist, mu, todo, NotHLS>>

----------------------------------------------------------------------------
(* The transcoder process and the clock *)

ProcessExits(t, err) ==
    /\ cmds[t].proc = "running"
    /\ cmds' = [cmds EXCEPT ![t].proc = "exited", ![t].exitErr = err]
    /\ lastOp' = Step("processExits", cmds[t].camera)
    /\ UNCHANGED <<activeStreams, streams, fails, playlist, mu, todo, NotHLS>>

ProcessWritesPlaylist(t) ==
    /\ cmds[t].proc = "running"
    /\ playlist' = [playlist EXCEPT ![cmds[t].camera] = 0]
    /\ lastOp' = Step("writePlaylist", cmds[t].camera)
    /\ UNCHANGED <<activeStreams, streams, cmds, fails, mu, todo, NotHLS>>

Advance ==
    /\ mu = "free"
    /\ playlist' = [c \in Cameras |-> Older(playlist[c])]
    /\ streams' = [s \in StreamIds |->
                      IF streams[s] = NoStream THEN NoStream
                      ELSE [streams[s] EXCEPT !.LastUpdate = Older(@)]]
    /\ lastOp' = Step("advance", 0)
    /\ UNCHANGED <<activeStreams, cmds, fails, mu, todo, NotHLS>>

----------------------------------------------------------------------------
(* RTSPService.checkStreamHealth and restartStreamUnsafe *)

(* Process.Signal(os.Signal(nil)): the argument is a nil interface value, not a
   syscall.Signal, so os.Process.Signal returns an error for every process:
   ErrProcessDone once the process was waited on, "unsupported signal type"
   otherwise. *)
SignalNil(cm, t) == "err"

(* Process.Signal(syscall.Signal(0)): succeeds while the process exists, also
   when it has exited and was not yet waited on. *)
SignalZero(cm, t) == IF cm[t].proc \in {"running", "exited"} THEN "ok" ELSE "err"

LivenessCheck(st, cm, s) ==
    IF ProcessSet(cm, st[s].FFmpegCmd)
    THEN IF SignalNil(cm, st[s].FFmpegCmd) # "ok" THEN "dead" ELSE "alive"
    ELSE "noproc"

FreshnessCheck(st, cm, pl, s) ==
    IF pl[st[s].CameraID] >= 0
    THEN IF pl[st[s].CameraID] > StaleAfter THEN "stale" ELSE "healthy"
    ELSE IF /\ ProcessSet(cm, st[s].FFmpegCmd)
            /\ SignalZero(cm, st[s].FFmpegCmd) = "ok"
            /\ st[s].LastUpdate < GracePeriod
         THEN "grace"
         ELSE "nofile"

VerdictByFreshness(st, cm, pl, s) == FreshnessCheck(st, cm, pl, s)

(* The branch one loop iteration takes: a failed liveness check restarts and
   continues, the freshness check is made only for a process found alive. *)
Verdict(st, cm, pl, s) ==
    IF LivenessCheck(st, cm, s) # "alive"
    THEN LivenessCheck(st, cm, s)
    ELSE FreshnessCheck(st, cm, pl, s)

RestartVerdicts == {"dead", "noproc", "stale", "nofile"}

(* R carries the heap through one loop iteration and counts what it did *)
RestartKeepsProcess(R, s) ==
    LET R1 == [R EXCEPT !.restarts = @ + 1,
                        !.fl[s] = IF R.counting THEN Min(@ + 1, MaxRestartAttempts + 1) ELSE @]
    IN  IF R.st[s].RestartCount >= MaxRestartAttempts
        THEN [R1 EXCEPT !.st[s].IsHealthy = FALSE]
        ELSE [R1 EXCEPT !.st[s].RestartCount = @ + 1,
                        !.st[s].IsHealthy = FALSE,
                        !.cm[Lowest(FreeCmds(R1.cm))] = NewCmd(s, R.st[s].CameraID),
                        !.spawned = @ + 1]

RestartChecksCeilingFirst(R, s) ==
    LET t == R.st[s].FFmpegCmd
        kill == ProcessSet(R.cm, t) /\ R.st[s].RestartCount < MaxRestartAttempts
        R1 == [R EXCEPT !.cm = IF kill THEN Killed(R.cm, t) ELSE R.cm,
                        !.kills = IF kill THEN @ + 1 ELSE @,
                        !.restarts = @ + 1,
                        !.fl[s] = IF R.counting THEN Min(@ + 1, MaxRestartAttempts + 1) ELSE @]
    IN  IF R.st[s].RestartCount >= MaxRestartAttempts
        THEN [R1 EXCEPT !.st[s].IsHealthy = FALSE]
        ELSE [R1 EXCEPT !.st[s].RestartCount = @ + 1,
                        !.st[s].IsHealthy = FALSE,
                        !.cm[Lowest(FreeCmds(R1.cm))] = NewCmd(s, R.st[s].CameraID),
                        !.spawned = @ + 1]

RestartCountsPastCeiling(R, s) ==
    LET t == R.st[s].FFmpegCmd
        kill == ProcessSet(R.cm, t)
        R1 == [R EXCEPT !.cm = IF kill THEN Killed(R.cm, t) ELSE R.cm,
                        !.kills = IF kill THEN @ + 1 ELSE @,
                        !.restarts = @ + 1,
                        !.fl[s] = IF R.counting THEN Min(@ + 1, MaxRestartAttempts + 1) ELSE @]
    IN  IF R.st[s].RestartCount >= MaxRestartAttempts
        THEN [R1 EXCEPT !.st[s].IsHealthy = FALSE,
                        !.st[s].RestartCount = Min(@ + 1, MaxRestartAttempts + 1)]
        ELSE [R1 EXCEPT !.st[s].RestartCount = @ + 1,
                        !.st[s].IsHealthy = FALSE,
                        !.cm[Lowest(FreeCmds(R1.cm))] = NewCmd(s, R.st[s].CameraID),
                        !.spawned = @ + 1]

RestartStreamUnsafe(R, s) ==
    LET t == R.st[s].FFmpegCmd
        kill == ProcessSet(R.cm, t)
        R1 == [R EXCEPT !.cm = IF kill THEN Killed(R.cm, t) ELSE R.cm,
                        !.kills = IF kill THEN @ + 1 ELSE @,
                        !.restarts = @ + 1,
                        !.fl[s] = IF R.counting THEN Min(@ + 1, MaxRestartAttempts + 1) ELSE @]
    IN  IF R.st[s].RestartCount >= MaxRestartAttempts
        THEN [R1 EXCEPT !.st[s].IsHealthy = FALSE]
        ELSE [R1 EXCEPT !.st[s].RestartCount = @ + 1,
                        !.st[s].IsHealthy = FALSE,
                        !.cm[Lowest(FreeCmds(R1.cm))] = NewCmd(s, R.st[s].CameraID),
                        !.spawned = @ + 1]

MarkHealthy(R, s, pl) ==
    [R EXCEPT !.st[s].LastUpdate = pl[R.st[s].CameraID],
              !.st[s].IsHealthy = TRUE,
              !.fl[s] = 0]

ApplyVerdict(R, s, pl, v) ==
    IF v \in RestartVerdicts THEN RestartStreamUnsafe(R, s)
    ELSE IF v = "healthy" THEN MarkHealthy(R, s, pl)
    ELSE R

(* the iteration starts a goroutine: every restart below the ceiling does *)
NeedsCmd(st, cm, pl, s) ==
    /\ Verdict(st, cm, pl, s) \in RestartVerdicts
    /\ st[s].RestartCount < MaxRestartAttempts

Keys(reg) == {c \in Cameras : reg[c] # 0}

TickBegin ==
    /\ mu = "free"
    /\ Keys(activeStreams) # {}
    /\ Cardinality(FreeCmds(cmds)) >=
           Cardinality({c \in Keys(activeStreams) :
                           streams[activeStreams[c]].RestartCount < MaxRestartAttempts})
    /\ mu' = "tick"
    /\ todo' = Keys(activeStreams)
    /\ lastOp' = Step("tickBegin", 0)
    /\ UNCHANGED <<activeStreams, streams, cmds, fails, playlist, NotHLS>>

TickEntry(c, counting) ==
    /\ mu = "tick"
    /\ c \in todo
    /\ LET s == activeStreams[c]
           v == Verdict(streams, cmds, playlist, s)
           R0 == [st |-> streams, cm |-> cmds, fl |-> fails, counting |-> counting,
                  kills |-> 0, restarts |-> 0, spawned |-> 0]
       IN  /\ NeedsCmd(streams, cmds, playlist, s) => FreeCmds(cmds) # {}
           /\ LET R == ApplyVerdict(R0, s, playlist, v)
              IN  /\ Commit(activeStreams, R.st, R.cm, R.fl)
                  /\ lastOp' = [NoOp EXCEPT !.op = "tick", !.cam = c,
                                            !.proc = IF streams[s].FFmpegCmd = 0 THEN "nil"
                                                     ELSE cmds[streams[s].FFmpegCmd].proc,
                                            !.verdict = v,
                                            !.kills = R.kills,
                                            !.restarts = R.restarts,
                                            !.spawned = R.spawned]
    /\ todo' = todo \ {c}
    /\ mu' = IF todo \ {c} = {} THEN "free" ELSE "tick"
    /\ UNCHANGED <<playlist, NotHLS>>

----------------------------------------------------------------------------
(* RTSPService.StopStream, GetStreamURL, GetStreamHealth *)

KillErrorReturnedWhenKillFails(c) ==
    /\ ProcessSet(cmds, streams[activeStreams[c]].FFmpegCmd)
    /\ KillResult(cmds, streams[activeStreams[c]].FFmpegCmd) = "err"

(* an error of Process.Kill is printed, the call goes on *)
KillErrorReturned(c) == FALSE

StopStream(c) ==
    /\ mu = "free"
    /\ IF activeStreams[c] = 0
       THEN /\ lastOp' = [NoOp EXCEPT !.op = "StopStream", !.cam = c, !.ret = "NotFound"]
            /\ UNCHANGED <<activeStreams, streams, cmds, fails>>
       ELSE LET s == activeStreams[c]
                t == streams[s].FFmpegCmd
                kill == ProcessSet(cmds, t)
            IN  IF KillErrorReturned(c)
                THEN /\ lastOp' = [NoOp EXCEPT !.op = "StopStream", !.cam = c, !.existed = TRUE,
                                               !.ret = "KillError", !.kill = "err"]
                     /\ UNCHANGED <<activeStreams, streams, cmds, fails>>
                ELSE /\ Commit([activeStreams EXCEPT ![c] = 0], streams,
                               IF kill THEN Killed(cmds, t) ELSE cmds, fails)
                     /\ lastOp' = [NoOp EXCEPT !.op = "StopStream", !.cam = c, !.existed = TRUE,
                                               !.ret = "nil",
                                               !.chain = IF lastOp.chain = 2 /\ lastOp.cam = c
                                                         THEN 3 ELSE 0,
                                               !.kill = IF kill THEN KillResult(cmds, t)
                                                        ELSE "none"]
    /\ UNCHANGED <<playlist, mu, todo, NotHLS>>

GetStreamURL(c) ==
    IF activeStreams[c] = 0 THEN <<"", FALSE>>
    ELSE <<streams[activeStreams[c]].HLSURL, TRUE>>

GetStreamHealthOfMissingIsFalse(c) ==
    IF activeStreams[c] = 0 THEN <<FALSE, "nil">>
    ELSE <<streams[activeStreams[c]].IsHealthy, "nil">>

GetStreamHealth(c) ==
    IF activeStreams[c] = 0 THEN <<FALSE, "NotFound">>
    ELSE <<streams[activeStreams[c]].IsHealthy, "nil">>

----------------------------------------------------------------------------
(* RTSPService.cleanupOldSegments *)

MaxLines == 2

SegA == <<"a", ".", "t", "s">>
SegB == <<"b", ".", "t", "s">>
SegC == <<"c", ".", "t", "s">>
PlaylistName == <<"p", ".", "m">>
NoRef == <<>>

(* Lines a playlist is made of, each with the file name it refers to *)
LineCatalog ==
    { [raw |-> <<"#", "E">>, ref |-> NoRef],
      [raw |-> SegA, ref |-> SegA],
      [raw |-> <<" ">> \o SegA \o <<"CR">>, ref |-> SegA],
      [raw |-> <<"d", "/">> \o SegB, ref |-> SegB],
      [raw |-> <<"#">> \o SegA, ref |-> NoRef],
      [raw |-> <<" ", "#">> \o SegC, ref |-> NoRef],
      [raw |-> <<>>, ref |-> NoRef],
      [raw |-> PlaylistName, ref |-> NoRef] }

DirCatalog == {SegA, SegB, SegC, PlaylistName}

PlaylistInputs == UNION {[1..n -> LineCatalog] : n \in 0..MaxLines}

RECURSIVE JoinLF(_)
JoinLF(lines) ==
    IF Len(lines) = 0 THEN <<>>
    ELSE IF Len(lines) = 1 THEN lines[1].raw
    ELSE lines[1].raw \o <<"LF">> \o JoinLF(Tail(lines))

(* strings.Split(s, "\n") *)
RECURSIVE SplitLF(_)
SplitLF(str) ==
    IF \A i \in 1..Len(str) : str[i] # "LF" THEN <<str>>
    ELSE LET k == Lowest({i \in 1..Len(str) : str[i] = "LF"})
         IN  <<SubSeq(str, 1, k - 1)>> \o SplitLF(SubSeq(str, k + 1, Len(str)))

IsSpace(ch) == ch \in {" ", "CR", "TAB", "LF"}

(* strings.TrimSpace *)
RECURSIVE TrimSpace(_)
TrimSpace(str) ==
    IF str = <<>> THEN str
    ELSE IF IsSpace(Head(str)) THEN TrimSpace(Tail(str))
    ELSE IF IsSpace(str[Len(str)]) THEN TrimSpace(SubSeq(str, 1, Len(str) - 1))
    ELSE str

HasPrefix(str, p) == Len(str) >= Len(p) /\ SubSeq(str, 1, Len(p)) = p

HasSuffix(str, p) == Len(str) >= Len(p) /\ SubSeq(str, Len(str) - Len(p) + 1, Len(str)) = p

(* filepath.Base: trailing separators dropped, then the last element *)
RECURSIVE Base(_)
Base(path) ==
    IF path = <<>> THEN <<".">>
    ELSE IF path[Len(path)] = "/"
         THEN IF Len(path) = 1 THEN <<"/">> ELSE Base(SubSeq(path, 1, Len(path) - 1))
    ELSE IF \A i \in 1..Len(path) : path[i] # "/" THEN path
    ELSE LET k == CHOOSE i \in 1..Len(path) :
                      path[i] = "/" /\ \A j \in (i + 1)..Len(path) : path[j] # "/"
         IN  SubSeq(path, k + 1, Len(path))

SegmentExt == <<".", "t", "s">>

SegmentNameAsWritten(line) == line

SegmentName(line) == Base(line)

ActiveSegments(content) ==
    LET lines == SplitLF(content)
        kept == {i \in 1..Len(lines) :
                    /\ TrimSpace(lines[i]) # <<>>
                    /\ ~HasPrefix(TrimSpace(lines[i]), <<"#">>)
                    /\ HasSuffix(TrimSpace(lines[i]), SegmentExt)}
    IN  {SegmentName(TrimSpace(lines[i])) : i \in kept}

OldSegments(files, active) == {f \in files : HasSuffix(f, SegmentExt) /\ f \notin active}

GCIdle ==
    /\ gcLines = <<>>
    /\ gcDir = {}
    /\ gcPc = "idle"
    /\ gcActive = {}
    /\ gcFiles = {}
    /\ gcRemoved = {}

GCInit ==
    /\ gcLines \in PlaylistInputs
    /\ gcDir \in SUBSET DirCatalog
    /\ gcPc = "read"
    /\ gcActive = {}
    /\ gcFiles = {}
    /\ gcRemoved = {}

GcReadPlaylist ==
    /\ gcPc = "read"
    /\ gcActive' = ActiveSegments(JoinLF(gcLines))
    /\ gcPc' = "list"
    /\ UNCHANGED <<gcLines, gcDir, gcFiles, gcRemoved, NotGC>>

GcReadPlaylistFailsAsEmpty ==
    /\ gcPc = "read"
    /\ gcPc' = "done"
    /\ gcRemoved' = OldSegments(gcDir, {})
    /\ gcDir' = gcDir \ OldSegments(gcDir, {})
    /\ UNCHANGED <<gcLines, gcActive, gcFiles, NotGC>>

(* os.ReadFile fails: return, nothing else is done; "done" is the return to
   checkStreamHealth, whose iteration goes on with the liveness check *)
GcReadPlaylistFails ==
    /\ gcPc = "read"
    /\ gcPc' = "done"
    /\ UNCHANGED <<gcLines, gcDir, gcActive, gcFiles, gcRemoved, NotGC>>

GcReadDir ==
    /\ gcPc = "list"
    /\ gcFiles' = gcDir
    /\ gcPc' = "remove"
    /\ UNCHANGED <<gcLines, gcDir, gcActive, gcRemoved, NotGC>>

GcReadDirFails ==
    /\ gcPc = "list"
    /\ gcPc' = "done"
    /\ UNCHANGED <<gcLines, gcDir, gcActive, gcFiles, gcRemoved, NotGC>>

(* the loop over the listing; os.Remove may fail on any of the files *)
GcRemove ==
    /\ gcPc = "remove"
    /\ \E kept \in SUBSET OldSegments(gcFiles, gcActive) :
          /\ gcRemoved' = (OldSegments(gcFiles, gcActive) \ kept) \cap gcDir
          /\ gcDir' = gcDir \ (OldSegments(gcFiles, gcActive) \ kept)
    /\ gcPc' = "done"
    /\ UNCHANGED <<gcLines, gcActive, gcFiles, NotGC>>

----------------------------------------------------------------------------
(* readAndSendVP8Frames: the frame demuxer of the WebRTC service *)

HeaderLen == 32
FrameDuration == 33333333

Signature == <<68, 75, 73, 70>>                 \* "DKIF"
GoodHeader == Signature \o [i \in 1..(HeaderLen - 4) |-> 0]
BadHeader == <<82, 73, 70, 70>> \o [i \in 1..(HeaderLen - 4) |-> 0]

(* what the transcoder writes for one record: 4 bytes of length, then the payload *)
LittleEndian4(n) ==
    <<n % 256, (n \div 256) % 256, (n \div 65536) % 256, (n \div 16777216) % 256>>

RECURSIVE EncodeRecords(_)
EncodeRecords(recs) ==
    IF recs = <<>> THEN <<>>
    ELSE LittleEndian4(Len(Head(recs))) \o Head(recs) \o EncodeRecords(Tail(recs))

Payloads == {<<>>, <<1>>, <<0, 0, 0, 0, 7>>}

HeaderKinds == {"ok", "badsig", "short"}

DmxInputs ==
    {in \in [hdr : HeaderKinds,
             recs : UNION {[1..n -> Payloads] : n \in 0..MaxRecords},
             cut : 0..MaxCut] :
        /\ in.hdr # "ok" => in.cut = 0
        /\ in.hdr = "short" => in.recs = <<>>}

DropLast(str, k) == SubSeq(str, 1, IF Len(str) > k THEN Len(str) - k ELSE 0)

StreamBytes(in) ==
    IF in.hdr = "short" THEN DropLast(GoodHeader, 1)
    ELSE DropLast((IF in.hdr = "ok" THEN GoodHeader ELSE BadHeader)
                      \o EncodeRecords(in.recs), in.cut)

(* io.ReadFull: n bytes, or an error when the stream ends before *)
ReadFullOK(str, n) == Len(str) >= n

FrameSizeBigEndian(b) == 16777216 * b[1] + 65536 * b[2] + 256 * b[3] + b[4]

(* uint32(b[0]) | uint32(b[1])<<8 | uint32(b[2])<<16 | uint32(b[3])<<24 *)
FrameSize(b) == b[1] + 256 * b[2] + 65536 * b[3] + 16777216 * b[4]

LastFrameTimeKept(now, last) == last

(* lastFrameTime = time.Now() *)
LastFrameTime(now, last) == now

(* time.Sleep(frameDuration - elapsed) when elapsed < frameDuration; the sleep
   is taken at its shortest *)
AfterPacing(now, last) ==
    IF now - last < FrameDuration THEN now + (FrameDuration - (now - last)) ELSE now

NoFrame == [size |-> 0, data |-> <<>>]

DmxIdle ==
    /\ dmxInput = [hdr |-> "ok", recs |-> <<>>, cut |-> 0]
    /\ dmxBytes = <<>>
    /\ dmxPc = "idle"
    /\ dmxFrame = NoFrame
    /\ dmxSink = <<>>
    /\ dmxNow = 0
    /\ dmxLast = 0

DmxInit ==
    /\ dmxInput \in DmxInputs
    /\ dmxBytes = StreamBytes(dmxInput)
    /\ dmxPc = "header"
    /\ dmxFrame = NoFrame
    /\ dmxSink = <<>>
    /\ dmxNow = 0
    /\ dmxLast = 0

DmxReadHeaderUnchecked ==
    /\ dmxPc = "header"
    /\ IF ReadFullOK(dmxBytes, HeaderLen)
       THEN /\ dmxBytes' = SubSeq(dmxBytes, HeaderLen + 1, Len(dmxBytes))
            /\ dmxPc' = "size"
       ELSE /\ dmxBytes' = <<>>
            /\ dmxPc' = "stopped"
    /\ dmxLast' = dmxNow
    /\ UNCHANGED <<dmxInput, dmxFrame, dmxSink, dmxNow, NotDmx>>

(* the header is read and its signature compared; lastFrameTime is taken *)
DmxReadHeader ==
    /\ dmxPc = "header"
    /\ IF ReadFullOK(dmxBytes, HeaderLen)
       THEN /\ dmxBytes' = SubSeq(dmxBytes, HeaderLen + 1, Len(dmxBytes))
            /\ dmxPc' = IF SubSeq(dmxBytes, 1, 4) = Signature THEN "size" ELSE "stopped"
       ELSE /\ dmxBytes' = <<>>
            /\ dmxPc' = "stopped"
    /\ dmxLast' = dmxNow
    /\ UNCHANGED <<dmxInput, dmxFrame, dmxSink, dmxNow, NotDmx>>

(* the four bytes of the size are read; a size of zero goes round the loop *)
DmxReadSize ==
    /\ dmxPc = "size"
    /\ IF ReadFullOK(dmxBytes, 4)
       THEN /\ dmxBytes' = SubSeq(dmxBytes, 5, Len(dmxBytes))
            /\ dmxFrame' = [size |-> FrameSize(SubSeq(dmxBytes, 1, 4)), data |-> <<>>]
            /\ dmxPc' = IF FrameSize(SubSeq(dmxBytes, 1, 4)) = 0 THEN "size" ELSE "data"
       ELSE /\ dmxBytes' = <<>>
            /\ dmxPc' = "stopped"
            /\ UNCHANGED dmxFrame
    /\ UNCHANGED <<dmxInput, dmxSink, dmxNow, dmxLast, NotDmx>>

DmxReadDataPartial ==
    /\ dmxPc = "data"
    /\ dmxBytes' = SubSeq(dmxBytes, Min(dmxFrame.size, Len(dmxBytes)) + 1, Len(dmxBytes))
    /\ dmxFrame' = [dmxFrame EXCEPT
                        !.data = SubSeq(dmxBytes, 1, Min(dmxFrame.size, Len(dmxBytes)))]
    /\ dmxPc' = "pace"
    /\ \E d \in {0, SlowRead} : dmxNow' = dmxNow + d
    /\ UNCHANGED <<dmxInput, dmxSink, dmxLast, NotDmx>>

(* frameSize bytes are read; reading may have taken time when now is taken *)
DmxReadData ==
    /\ dmxPc = "data"
    /\ IF ReadFullOK(dmxBytes, dmxFrame.size)
       THEN /\ dmxBytes' = SubSeq(dmxBytes, dmxFrame.size + 1, Len(dmxBytes))
            /\ dmxFrame' = [dmxFrame EXCEPT !.data = SubSeq(dmxBytes, 1, dmxFrame.size)]
            /\ dmxPc' = "pace"
            /\ \E d \in {0, SlowRead} : dmxNow' = dmxNow + d
       ELSE /\ dmxBytes' = <<>>
            /\ dmxPc' = "stopped"
            /\ UNCHANGED <<dmxFrame, dmxNow>>
    /\ UNCHANGED <<dmxInput, dmxSink, dmxLast, NotDmx>>

(* the wait that keeps the frames one frameDuration apart *)
DmxPace ==
    /\ dmxPc = "pace"
    /\ dmxNow' = AfterPacing(dmxNow, dmxLast)
    /\ dmxPc' = "write"
    /\ UNCHANGED <<dmxInput, dmxBytes, dmxFrame, dmxSink, dmxLast, NotDmx>>

DmxWriteSampleFatal(ok) ==
    /\ dmxPc = "write"
    /\ dmxSink' = Append(dmxSink, [data |-> dmxFrame.data, at |-> dmxNow, ok |-> ok])
    /\ dmxLast' = LastFrameTime(dmxNow, dmxLast)
    /\ dmxPc' = IF ok THEN "size" ELSE "stopped"
    /\ UNCHANGED <<dmxInput, dmxBytes, dmxFrame, dmxNow, NotDmx>>

(* track.WriteSample, whose error is logged and nothing more, then the new
   lastFrameTime *)
DmxWriteSample(ok) ==
    /\ dmxPc = "write"
    /\ dmxSink' = Append(dmxSink, [data |-> dmxFrame.data, at |-> dmxNow, ok |-> ok])
    /\ dmxLast' = LastFrameTime(dmxNow, dmxLast)
    /\ dmxPc' = "size"
    /\ UNCHANGED <<dmxInput, dmxBytes, dmxFrame, dmxNow, NotDmx>>
----------------------------------------------------------------------------
(* WebRTCService: registry, launch goroutine, process-wait goroutine *)

WStreamIds == 1..MaxWStreams
Conns == 1..MaxConns

(* a WebRTCStream and the goroutines that hold it: task is the position of
   convertRTSPToWebRTC, waiter that of the goroutine around cmd.Wait, demux
   that of readAndSendVP8Frames *)
NoWStream ==
    [CameraID |-> 0, IsActive |-> FALSE, VideoTrack |-> FALSE, FFmpegCmd |-> FALSE,
     PeerConnections |-> {}, task |-> "free", proc |-> "nil", waiter |-> "none",
     demux |-> "none"]

NewWStream(c) == [NoWStream EXCEPT !.CameraID = c, !.task = "track"]

(* a run of HandleWebSocket: stream is the pointer it looked up, tries the
   sleeps of the ready loop made so far, ready whether the loop was left by its
   break, handler whether the connection-state
   callback is registered, pcState the state of its peer connection, cb the
   callbacks for Closed or Failed scheduled and not yet run *)
NoSess ==
    [pc |-> "idle", cam |-> 0, stream |-> 0, tries |-> 0, ready |-> FALSE, handler |-> FALSE,
     pcState |-> "none", cb |-> 0, connClosed |-> FALSE]

(* lock: how s.mu is held while the operation reads or writes s.activeStreams
   ("" when it does not touch the map) *)
NoWOp == [op |-> "init", cam |-> 0, conn |-> 0, ret |-> "", existed |-> FALSE, spawned |-> 0,
          lock |-> ""]

WStep == [NoWOp EXCEPT !.op = "internal"]

(* WebRTCStream objects that the registry, a goroutine, a process or a run of
   HandleWebSocket still refers to *)
WLive(reg, st, ss) ==
    {s \in WStreamIds :
        \/ \E c \in Cameras : reg[c] = s
        \/ st[s].task \notin {"free", "done"}
        \/ st[s].proc = "running"
        \/ st[s].waiter \in {"wait", "mark"}
        \/ st[s].demux = "running"
        \/ \E k \in Conns : ss[k].stream = s}

WCommit(reg, st, ss) ==
    /\ wActive' = reg
    /\ wStreams' = [s \in WStreamIds |-> IF s \in WLive(reg, st, ss) THEN st[s] ELSE NoWStream]
    /\ wSess' = ss

WInit ==
    /\ wActive = [c \in Cameras |-> 0]
    /\ wStreams = [s \in WStreamIds |-> NoWStream]
    /\ wSess = [k \in Conns |-> NoSess]
    /\ wLast = NoWOp

(* exists && stream.IsActive *)
WStartFindsEntry(c) == wActive[c] # 0 /\ wStreams[wActive[c]].IsActive

WStartStream(c) ==
    IF WStartFindsEntry(c)
    THEN /\ wLast' = [NoWOp EXCEPT !.op = "StartStream", !.lock = "Lock", !.cam = c, !.ret = "nil",
                                   !.existed = TRUE]
         /\ UNCHANGED <<wActive, wStreams, wSess, NotW>>
    ELSE /\ \E s \in WStreamIds : wStreams[s] = NoWStream
         /\ LET s == Lowest({x \in WStreamIds : wStreams[x] = NoWStream})
            IN  WCommit([wActive EXCEPT ![c] = s], [wStreams EXCEPT ![s] = NewWStream(c)], wSess)
         /\ wLast' = [NoWOp EXCEPT !.op = "StartStream", !.lock = "Lock", !.cam = c, !.ret = "nil",
                                   !.existed = wActive[c] # 0, !.spawned = 1]
         /\ UNCHANGED NotW

(* webrtc.NewTrackLocalStaticSample, then stream.VideoTrack = videoTrack *)
WTrack(s, ok) ==
    /\ wStreams[s].task = "track"
    /\ WCommit(wActive,
               IF ok THEN [wStreams EXCEPT ![s].VideoTrack = TRUE, ![s].task = "pipes"]
               ELSE [wStreams EXCEPT ![s].task = "done"],
               wSess)
    /\ wLast' = WStep
    /\ UNCHANGED NotW

(* exec.Command, the two pipes, then stream.FFmpegCmd = cmd *)
WPipes(s, ok) ==
    /\ wStreams[s].task = "pipes"
    /\ WCommit(wActive,
               IF ok THEN [wStreams EXCEPT ![s].FFmpegCmd = TRUE, ![s].task = "start"]
               ELSE [wStreams EXCEPT ![s].task = "done"],
               wSess)
    /\ wLast' = WStep
    /\ UNCHANGED NotW

(* cmd.Start *)
WCmdStart(s, ok) ==
    /\ wStreams[s].task = "start"
    /\ WCommit(wActive,
               IF ok THEN [wStreams EXCEPT ![s].proc = "running", ![s].task = "mark"]
               ELSE [wStreams EXCEPT ![s].IsActive = FALSE, ![s].task = "done"],
               wSess)
    /\ wLast' = WStep
    /\ UNCHANGED NotW

(* stream.IsActive = true, then the two goroutines are started *)
WMarkActive(s) ==
    /\ wStreams[s].task = "mark"
    /\ WCommit(wActive,
               [wStreams EXCEPT ![s].IsActive = TRUE, ![s].task = "done",
                                ![s].demux = "running", ![s].waiter = "wait"],
               wSess)
    /\ wLast' = WStep
    /\ UNCHANGED NotW

WProcessExits(s) ==
    /\ wStreams[s].proc = "running"
    /\ WCommit(wActive, [wStreams EXCEPT ![s].proc = "exited"], wSess)
    /\ wLast' = WStep
    /\ UNCHANGED NotW

(* cmd.Wait returns in the goroutine: the process has ended, or StopStream
   has waited on it already *)
WWaitReturns(s) ==
    /\ wStreams[s].waiter = "wait"
    /\ wStreams[s].proc \in {"exited", "reaped"}
    /\ WCommit(wActive, [wStreams EXCEPT ![s].proc = "reaped", ![s].waiter = "mark"], wSess)
    /\ wLast' = WStep
    /\ UNCHANGED NotW

(* stream.IsActive = false *)
WMarkInactive(s) ==
    /\ wStreams[s].waiter = "mark"
    /\ WCommit(wActive, [wStreams EXCEPT ![s].IsActive = FALSE, ![s].waiter = "done"], wSess)
    /\ wLast' = WStep
    /\ UNCHANGED NotW

WDemuxEndsMarksInactive(s) ==
    /\ wStreams[s].demux = "running"
    /\ wStreams[s].proc # "running"
    /\ WCommit(wActive, [wStreams EXCEPT ![s].demux = "stopped", ![s].IsActive = FALSE], wSess)
    /\ wLast' = WStep
    /\ UNCHANGED NotW

(* readAndSendVP8Frames ends when a read from the process's stdout fails *)
WDemuxEnds(s) ==
    /\ wStreams[s].demux = "running"
    /\ wStreams[s].proc # "running"
    /\ WCommit(wActive, [wStreams EXCEPT ![s].demux = "stopped"], wSess)
    /\ wLast' = WStep
    /\ UNCHANGED NotW

(* WebRTCService.HandleWebSocket, one run per websocket connection *)

(* a run that has returned, whose callbacks have run and which no session set
   holds leaves nothing behind *)
Forgotten(st, ss) ==
    [k \in Conns |->
        IF /\ ss[k].pc = "done"
           /\ ss[k].cb = 0
           /\ \A s \in WStreamIds : k \notin st[s].PeerConnections
        THEN NoSess ELSE ss[k]]

WCommitSess(st, ss) == WCommit(wActive, st, Forgotten(st, ss))

(* peerConnection.Close(): the state becomes closed, and a registered
   connection-state callback is scheduled for the change *)
PeerClosed(se) ==
    IF se.pcState \in {"none", "closed"} THEN se
    ELSE [se EXCEPT !.pcState = "closed", !.cb = IF se.handler THEN @ + 1 ELSE @]

(* return: the deferred peerConnection.Close() and conn.Close() *)
Returned(se) == [PeerClosed(se) EXCEPT !.pc = "done", !.connClosed = TRUE]

(* stream, exists := s.activeStreams[cameraID], read without s.mu *)
HsLookup(k, c) ==
    /\ wSess[k].pc = "idle"
    /\ IF wActive[c] = 0
       THEN /\ wLast' = [NoWOp EXCEPT !.op = "HandleWebSocket", !.lock = "none", !.cam = c, !.conn = k,
                                      !.ret = "Stream not found"]
            /\ UNCHANGED <<wActive, wStreams, wSess>>
       ELSE /\ WCommitSess(wStreams, [wSess EXCEPT ![k] = [NoSess EXCEPT !.pc = "wait", !.cam = c,
                                                                         !.stream = wActive[c]]])
            /\ wLast' = [NoWOp EXCEPT !.op = "HandleWebSocket", !.lock = "none", !.cam = c, !.conn = k,
                                      !.existed = TRUE]
    /\ UNCHANGED NotW

SinkReady(s) == wStreams[s].IsActive /\ wStreams[s].VideoTrack

(* one iteration of the ready loop: break when ready, else sleep 100 ms; the
   loop is left after ReadyRetries iterations whatever it saw *)
HsPoll(k) ==
    /\ wSess[k].pc = "wait"
    /\ WCommitSess(wStreams,
                   IF SinkReady(wSess[k].stream) \/ wSess[k].tries + 1 = ReadyRetries
                   THEN [wSess EXCEPT ![k].pc = "create", ![k].tries = 0,
                                      ![k].ready = SinkReady(wSess[k].stream)]
                   ELSE [wSess EXCEPT ![k].tries = @ + 1])
    /\ wLast' = WStep
    /\ UNCHANGED NotW

(* s.api.NewPeerConnection *)
HsCreate(k, ok) ==
    /\ wSess[k].pc = "create"
    /\ WCommitSess(wStreams,
                   IF ok THEN [wSess EXCEPT ![k].pc = "store", ![k].pcState = "new"]
                   ELSE [wSess EXCEPT ![k] = Returned(@)])
    /\ wLast' = [WStep EXCEPT !.conn = k, !.ret = IF ok THEN "" ELSE "returned"]
    /\ UNCHANGED NotW

HsStoreMarksActive(k) ==
    /\ wSess[k].pc = "store"
    /\ WCommitSess([wStreams EXCEPT ![wSess[k].stream].PeerConnections = @ \cup {k},
                                    ![wSess[k].stream].IsActive = TRUE],
                   [wSess EXCEPT ![k].pc = "track"])
    /\ wLast' = [WStep EXCEPT !.conn = k, !.ret = "stored"]
    /\ UNCHANGED NotW

(* stream.PeerConnections[connID] = peerConnection *)
HsStore(k) ==
    /\ wSess[k].pc = "store"
    /\ WCommitSess([wStreams EXCEPT ![wSess[k].stream].PeerConnections = @ \cup {k}],
                   [wSess EXCEPT ![k].pc = "track"])
    /\ wLast' = [WStep EXCEPT !.conn = k, !.ret = "stored"]
    /\ UNCHANGED NotW

(* the video track is read and added; the handler returns when there is none
   or AddTrack fails *)
HsAddTrack(k, ok) ==
    /\ wSess[k].pc = "track"
    /\ WCommitSess(wStreams,
                   IF wStreams[wSess[k].stream].VideoTrack /\ ok
                   THEN [wSess EXCEPT ![k].pc = "handlers"]
                   ELSE [wSess EXCEPT ![k] = Returned(@)])
    /\ wLast' = [WStep EXCEPT !.conn = k,
                              !.ret = IF wStreams[wSess[k].stream].VideoTrack /\ ok
                                      THEN "" ELSE "returned"]
    /\ UNCHANGED NotW

(* OnICECandidate and OnConnectionStateChange are registered *)
HsHandlers(k) ==
    /\ wSess[k].pc = "handlers"
    /\ WCommitSess(wStreams, [wSess EXCEPT ![k].pc = "read", ![k].handler = TRUE])
    /\ wLast' = WStep
    /\ UNCHANGED NotW

(* conn.ReadJSON fails: the client went away or the connection was closed *)
HsReadError(k) ==
    /\ wSess[k].pc = "read"
    /\ WCommitSess(wStreams, [wSess EXCEPT ![k] = Returned(@)])
    /\ wLast' = [WStep EXCEPT !.conn = k, !.ret = "returned"]
    /\ UNCHANGED NotW

(* the peer connection fails while the handler reads *)
HsFailed(k) ==
    /\ wSess[k].pc = "read"
    /\ wSess[k].pcState = "new"
    /\ WCommitSess(wStreams, [wSess EXCEPT ![k].pcState = "failed", ![k].cb = @ + 1])
    /\ wLast' = WStep
    /\ UNCHANGED NotW

(* the connection-state callback for Closed or Failed:
   delete(stream.PeerConnections, connID); conn.Close() *)
HsCallback(k) ==
    /\ wSess[k].cb > 0
    /\ WCommitSess([wStreams EXCEPT ![wSess[k].stream].PeerConnections = @ \ {k}],
                   [wSess EXCEPT ![k].cb = @ - 1, ![k].connClosed = TRUE])
    /\ wLast' = [WStep EXCEPT !.conn = k, !.ret = "callback"]
    /\ UNCHANGED NotW

(* WebRTCService.StopStream: Kill and Wait when the process was started, every
   peer connection of the session set closed, the key deleted *)
WStopStream(c) ==
    /\ IF wActive[c] = 0
       THEN /\ wLast' = [NoWOp EXCEPT !.op = "StopStream", !.lock = "Lock", !.cam = c, !.ret = "NotFound"]
            /\ UNCHANGED <<wActive, wStreams, wSess>>
       ELSE LET s == wActive[c]
                started == wStreams[s].FFmpegCmd /\ wStreams[s].proc # "nil"
            IN  /\ WCommit([wActive EXCEPT ![c] = 0],
                           [wStreams EXCEPT ![s].proc = IF started THEN "reaped" ELSE @],
                           Forgotten(wStreams,
                                     [k \in Conns |->
                                         IF k \in wStreams[s].PeerConnections
                                         THEN PeerClosed(wSess[k]) ELSE wSess[k]]))
                /\ wLast' = [NoWOp EXCEPT !.op = "StopStream", !.lock = "Lock", !.cam = c, !.ret = "nil",
                                          !.existed = TRUE]
    /\ UNCHANGED NotW

GetStreamStatus(c) ==
    IF wActive[c] = 0 THEN <<FALSE, "NotFound">>
    ELSE <<wStreams[wActive[c]].IsActive, "nil">>

NextWebRTC ==
    \/ \E c \in Cameras : WStartStream(c)
    \/ \E c \in Cameras : WStopStream(c)
    \/ \E s \in WStreamIds, ok \in BOOLEAN : WTrack(s, ok)
    \/ \E s \in WStreamIds, ok \in BOOLEAN : WPipes(s, ok)
    \/ \E s \in WStreamIds, ok \in BOOLEAN : WCmdStart(s, ok)
    \/ \E s \in WStreamIds : WMarkActive(s)
    \/ \E s \in WStreamIds : WProcessExits(s)
    \/ \E s \in WStreamIds : WWaitReturns(s)
    \/ \E s \in WStreamIds : WMarkInactive(s)
    \/ \E s \in WStreamIds : WDemuxEnds(s)
    \/ \E k \in Conns, c \in Cameras : HsLookup(k, c)
    \/ \E k \in Conns : HsPoll(k)
    \/ \E k \in Conns, ok \in BOOLEAN : HsCreate(k, ok)
    \/ \E k \in Conns : HsStore(k)
    \/ \E k \in Conns, ok \in BOOLEAN : HsAddTrack(k, ok)
    \/ \E k \in Conns : HsHandlers(k)
    \/ \E k \in Conns : HsReadError(k)
    \/ \E k \in Conns : HsFailed(k)
    \/ \E k \in Conns : HsCallback(k)

----------------------------------------------------------------------------
(* MJPEGService *)

MjStreamIds == 1..MaxMjStreams
Readers == 1..MaxReaders

NoMjStream == [CameraID |-> 0, FFmpegCmd |-> 0, IsActive |-> FALSE]

(* an exec.Cmd of GetStreamReader with the mjpegReader made for it: pc is the
   position of GetStreamReader, then of Close *)
NoReader == [pc |-> "free", stream |-> 0, proc |-> "nil"]

NoMjOp == [op |-> "init", cam |-> 0, reader |-> 0, ret |-> "", existed |-> FALSE]

MjStep == [NoMjOp EXCEPT !.op = "internal"]

MjLiveStreams(reg, rd) ==
    {s \in MjStreamIds :
        \/ \E c \in Cameras : reg[c] = s
        \/ \E r \in Readers : rd[r].pc \notin {"free", "closed"} /\ rd[r].stream = s}

MjLiveReaders(reg, st, rd) ==
    {r \in Readers :
        \/ rd[r].pc \notin {"free", "closed"}
        \/ rd[r].proc = "running"
        \/ \E s \in MjLiveStreams(reg, rd) : st[s].FFmpegCmd = r}

MjCommit(reg, st, rd) ==
    /\ mjActive' = reg
    /\ mjStreams' = [s \in MjStreamIds |->
                        IF s \in MjLiveStreams(reg, rd) THEN st[s] ELSE NoMjStream]
    /\ mjReaders' = [r \in Readers |->
                        IF r \in MjLiveReaders(reg, st, rd) THEN rd[r] ELSE NoReader]

MjInit ==
    /\ mjActive = [c \in Cameras |-> 0]
    /\ mjStreams = [s \in MjStreamIds |-> NoMjStream]
    /\ mjReaders = [r \in Readers |-> NoReader]
    /\ mjLast = NoMjOp

(* Process.Kill then Cmd.Wait on a started command: the process is gone when
   Wait has returned, whoever waited first *)
KilledAndWaited(rd, t) == IF t # 0 /\ rd[t].proc # "nil" THEN [rd EXCEPT ![t].proc = "reaped"] ELSE rd

MjStartStream(c) ==
    IF mjActive[c] # 0 /\ mjStreams[mjActive[c]].IsActive
    THEN /\ mjLast' = [NoMjOp EXCEPT !.op = "StartStream", !.cam = c, !.ret = "nil",
                                     !.existed = TRUE]
         /\ UNCHANGED <<mjActive, mjStreams, mjReaders, NotMj>>
    ELSE /\ \E s \in MjStreamIds : mjStreams[s] = NoMjStream
         /\ LET s == Lowest({x \in MjStreamIds : mjStreams[x] = NoMjStream})
            IN  MjCommit([mjActive EXCEPT ![c] = s],
                         [mjStreams EXCEPT ![s] = [NoMjStream EXCEPT !.CameraID = c]],
                         mjReaders)
         /\ mjLast' = [NoMjOp EXCEPT !.op = "StartStream", !.cam = c, !.ret = "nil",
                                     !.existed = mjActive[c] # 0]
         /\ UNCHANGED NotMj

(* GetStreamReader: the lookup under the read lock *)
MjLookup(r, c) ==
    /\ mjReaders[r] = NoReader
    /\ IF mjActive[c] = 0
       THEN /\ mjLast' = [NoMjOp EXCEPT !.op = "GetStreamReader", !.cam = c, !.ret = "NotFound"]
            /\ UNCHANGED <<mjActive, mjStreams, mjReaders>>
       ELSE /\ MjCommit(mjActive, mjStreams,
                        [mjReaders EXCEPT ![r] = [NoReader EXCEPT !.pc = "start",
                                                                  !.stream = mjActive[c]]])
            /\ mjLast' = [NoMjOp EXCEPT !.op = "GetStreamReader", !.cam = c, !.reader = r,
                                        !.existed = TRUE]
    /\ UNCHANGED NotMj

(* GetStreamReader: cmd.StdoutPipe and cmd.Start; an error is returned *)
MjCmdStart(r, ok) ==
    /\ mjReaders[r].pc = "start"
    /\ MjCommit(mjActive, mjStreams,
                IF ok THEN [mjReaders EXCEPT ![r].pc = "mark", ![r].proc = "running"]
                ELSE [mjReaders EXCEPT ![r].pc = "closed"])
    /\ mjLast' = [MjStep EXCEPT !.reader = r, !.ret = IF ok THEN "" ELSE "error"]
    /\ UNCHANGED NotMj

(* GetStreamReader: stream.FFmpegCmd = cmd, stream.IsActive = true, and the
   reader is returned *)
MjMark(r) ==
    /\ mjReaders[r].pc = "mark"
    /\ MjCommit(mjActive,
                [mjStreams EXCEPT ![mjReaders[r].stream].FFmpegCmd = r,
                                  ![mjReaders[r].stream].IsActive = TRUE],
                [mjReaders EXCEPT ![r].pc = "open"])
    /\ mjLast' = [MjStep EXCEPT !.reader = r, !.ret = "reader"]
    /\ UNCHANGED NotMj

MjProcessExits(r) ==
    /\ mjReaders[r].proc = "running"
    /\ MjCommit(mjActive, mjStreams, [mjReaders EXCEPT ![r].proc = "exited"])
    /\ mjLast' = MjStep
    /\ UNCHANGED NotMj

CloseTargetOfStream(r) == mjStreams[mjReaders[r].stream].FFmpegCmd

(* r.cmd *)
CloseTarget(r) == r

(* mjpegReader.Close: r.cmd.Process.Kill(), r.cmd.Wait() *)
MjCloseKill(r) ==
    /\ mjReaders[r].pc = "open"
    /\ MjCommit(mjActive, mjStreams,
                [KilledAndWaited(mjReaders, CloseTarget(r)) EXCEPT ![r].pc = "unmark"])
    /\ mjLast' = MjStep
    /\ UNCHANGED NotMj

(* mjpegReader.Close: r.stream.IsActive = false, r.reader.Close(), return *)
MjCloseMark(r) ==
    /\ mjReaders[r].pc = "unmark"
    /\ MjCommit(mjActive, [mjStreams EXCEPT ![mjReaders[r].stream].IsActive = FALSE],
                [mjReaders EXCEPT ![r].pc = "closed"])
    /\ mjLast' = [NoMjOp EXCEPT !.op = "Close", !.reader = r, !.ret = "nil",
                                !.cam = mjStreams[mjReaders[r].stream].CameraID]
    /\ UNCHANGED NotMj

(* MJPEGService.StopStream *)
MjStopStream(c) ==
    /\ IF mjActive[c] = 0
       THEN /\ mjLast' = [NoMjOp EXCEPT !.op = "StopStream", !.cam = c, !.ret = "NotFound"]
            /\ UNCHANGED <<mjActive, mjStreams, mjReaders>>
       ELSE /\ MjCommit([mjActive EXCEPT ![c] = 0], mjStreams,
                        KilledAndWaited(mjReaders, mjStreams[mjActive[c]].FFmpegCmd))
            /\ mjLast' = [NoMjOp EXCEPT !.op = "StopStream", !.cam = c, !.ret = "nil",
                                        !.existed = TRUE]
    /\ UNCHANGED NotMj

MjGetStreamStatus(c) ==
    IF mjActive[c] = 0 THEN <<FALSE, "NotFound">>
    ELSE <<mjStreams[mjActive[c]].IsActive, "nil">>

NextMJPEG ==
    \/ \E c \in Cameras : MjStartStream(c)
    \/ \E c \in Cameras : MjStopStream(c)
    \/ \E r \in Readers, c \in Cameras : MjLookup(r, c)
    \/ \E r \in Readers, ok \in BOOLEAN : MjCmdStart(r, ok)
    \/ \E r \in Readers : MjMark(r)
    \/ \E r \in Readers : MjProcessExits(r)
    \/ \E r \in Readers : MjCloseKill(r)
    \/ \E r \in Readers : MjCloseMark(r)

----------------------------------------------------------------------------
(* MediaMTXService: paths configured on a remote MediaMTX server over its HTTP
   API, mirrored in activePaths. StartStream, StopStream and GetAllStreamHealth
   hold s.mu from entry to return; GetStreamHealth releases it before its
   request. *)

MaxMtxCameras == 2

MtxCameras == 1..MaxMtxCameras

NoPath == <<>>

(* GetPathName: fmt.Sprintf("cam%d", cameraID) *)
GetPathName(c) == <<"cam", c>>

PathNames == {GetPathName(c) : c \in MtxCameras}

(* fmt.Sprintf("http://%s:%s/%s/index.m3u8", PublicHost, HTTPPort, pathName) *)
MtxHLSURL(p) == <<"PublicHost", "HTTPPort", p, "index.m3u8">>

(* What httpClient.Do gives back: a response with a status, or an error, here
   the status of no response *)
Statuses == {200, 201, 204, 400, 404, 500}

TransportError == 0

Outcomes == {TransportError} \cup Statuses

NoMtxOp ==
    [op |-> "init", cam |-> 0, outcome |-> TransportError, ret |-> <<>>, existed |-> FALSE,
     requests |-> 0]

MtxStep == [NoMtxOp EXCEPT !.op = "internal"]

NoHealthCall == [pc |-> "idle", cam |-> 0, pathName |-> NoPath]

MtxInit ==
    /\ activePaths = [c \in MtxCameras |-> NoPath]
    /\ mtxRemote = {}
    /\ mtxHealth = NoHealthCall
    /\ mtxLast = NoMtxOp

(* the server applies a patch it answers with a success status; of a request
   whose answer never arrived it may have applied the patch or not *)
ServerApplied(o, applied) ==
    IF o = TransportError THEN applied ELSE o \in {200, 201, 204}

StartAcceptsAny(o) == o # TransportError

(* resp.StatusCode != http.StatusOK && resp.StatusCode != http.StatusCreated *)
StartAccepts(o) == o \in {200, 201}

StopAcceptsAny(o) == o # TransportError

(* resp.StatusCode != http.StatusOK *)
StopAccepts(o) == o = 200

MtxStartStream(c, o, applied) ==
    /\ IF activePaths[c] # NoPath
       THEN /\ mtxLast' = [NoMtxOp EXCEPT !.op = "StartStream", !.cam = c, !.existed = TRUE,
                                          !.ret = <<MtxHLSURL(activePaths[c]), "nil">>]
            /\ UNCHANGED <<activePaths, mtxRemote>>
       ELSE /\ mtxRemote' = IF ServerApplied(o, applied)
                            THEN mtxRemote \cup {GetPathName(c)} ELSE mtxRemote
            /\ IF StartAccepts(o)
               THEN /\ activePaths' = [activePaths EXCEPT ![c] = GetPathName(c)]
                    /\ mtxLast' = [NoMtxOp EXCEPT !.op = "StartStream", !.cam = c,
                                                  !.outcome = o, !.requests = 1,
                                                  !.ret = <<MtxHLSURL(GetPathName(c)), "nil">>]
               ELSE /\ mtxLast' = [NoMtxOp EXCEPT !.op = "StartStream", !.cam = c,
                                                  !.outcome = o, !.requests = 1,
                                                  !.ret = <<"", "error">>]
                    /\ UNCHANGED activePaths
    /\ UNCHANGED <<mtxHealth, NotMtx>>

(* http.NewRequest fails: the call returns before any request is sent *)
MtxStartStreamNoRequest(c) ==
    /\ activePaths[c] = NoPath
    /\ mtxLast' = [NoMtxOp EXCEPT !.op = "StartStream", !.cam = c, !.ret = <<"", "error">>]
    /\ UNCHANGED <<activePaths, mtxRemote, mtxHealth, NotMtx>>

MtxStopStream(c, o, applied) ==
    /\ IF activePaths[c] = NoPath
       THEN /\ mtxLast' = [NoMtxOp EXCEPT !.op = "StopStream", !.cam = c, !.ret = "NotFound"]
            /\ UNCHANGED <<activePaths, mtxRemote>>
       ELSE /\ mtxRemote' = IF ServerApplied(o, applied)
                            THEN mtxRemote \ {activePaths[c]} ELSE mtxRemote
            /\ IF StopAccepts(o)
               THEN /\ activePaths' = [activePaths EXCEPT ![c] = NoPath]
                    /\ mtxLast' = [NoMtxOp EXCEPT !.op = "StopStream", !.cam = c,
                                                  !.existed = TRUE, !.outcome = o,
                                                  !.requests = 1, !.ret = "nil"]
               ELSE /\ mtxLast' = [NoMtxOp EXCEPT !.op = "StopStream", !.cam = c,
                                                  !.existed = TRUE, !.outcome = o,
                                                  !.requests = 1, !.ret = "error"]
                    /\ UNCHANGED activePaths
    /\ UNCHANGED <<mtxHealth, NotMtx>>

MtxStopStreamNoRequest(c) ==
    /\ activePaths[c] # NoPath
    /\ mtxLast' = [NoMtxOp EXCEPT !.op = "StopStream", !.cam = c, !.existed = TRUE,
                                  !.ret = "error"]
    /\ UNCHANGED <<activePaths, mtxRemote, mtxHealth, NotMtx>>

MtxGetStreamURL(c) ==
    IF activePaths[c] = NoPath THEN <<"", FALSE>>
    ELSE <<MtxHLSURL(activePaths[c]), TRUE>>

(* GetStreamHealth, first the lookup under the read lock *)
MtxHealthLookup(c) ==
    /\ mtxHealth.pc = "idle"
    /\ IF activePaths[c] = NoPath
       THEN /\ mtxLast' = [NoMtxOp EXCEPT !.op = "GetStreamHealth", !.cam = c,
                                          !.ret = <<FALSE, "NotFound">>]
            /\ UNCHANGED mtxHealth
       ELSE /\ mtxHealth' = [pc |-> "list", cam |-> c, pathName |-> activePaths[c]]
            /\ mtxLast' = MtxStep
    /\ UNCHANGED <<activePaths, mtxRemote, NotMtx>>

(* the "items" of a decoded /v2/paths/list answer, when they are a JSON object *)
ListedPaths(isObject) == IF isObject THEN mtxRemote ELSE {}

(* then GET /v2/paths/list without the lock; decoded: the body is JSON *)
MtxHealthList(o, decoded, isObject) ==
    /\ mtxHealth.pc = "list"
    /\ mtxHealth' = NoHealthCall
    /\ mtxLast' = [NoMtxOp EXCEPT
                      !.op = "GetStreamHealth", !.cam = mtxHealth.cam, !.existed = TRUE,
                      !.outcome = o, !.requests = 1,
                      !.ret = IF o # 200 \/ ~decoded THEN <<FALSE, "error">>
                              ELSE <<mtxHealth.pathName \in ListedPaths(isObject), "nil">>]
    /\ UNCHANGED <<activePaths, mtxRemote, NotMtx>>

(* the server is restarted and forgets the paths patched into its configuration *)
MtxServerRestarts ==
    /\ mtxRemote # {}
    /\ mtxRemote' = {}
    /\ mtxLast' = MtxStep
    /\ UNCHANGED <<activePaths, mtxHealth, NotMtx>>

NextMediaMTX ==
    \/ \E c \in MtxCameras, o \in Outcomes, applied \in BOOLEAN : MtxStartStream(c, o, applied)
    \/ \E c \in MtxCameras : MtxStartStreamNoRequest(c)
    \/ \E c \in MtxCameras, o \in Outcomes, applied \in BOOLEAN : MtxStopStream(c, o, applied)
    \/ \E c \in MtxCameras : MtxStopStreamNoRequest(c)
    \/ \E c \in MtxCameras : MtxHealthLookup(c)
    \/ \E o \in Outcomes, decoded \in BOOLEAN, isObject \in BOOLEAN :
          MtxHealthList(o, decoded, isObject)
    \/ MtxServerRestarts

----------------------------------------------------------------------------
(* The transcoder writing into the directory cleanupOldSegments works on:
   ffmpeg's HLS muxer writes a segment file to its end and then rewrites the
   playlist with a line for it, dropping the first line when the list is
   full (-hls_list_size) *)

FfIdle == ffWriting = NoRef

FfWritesSegment(f) ==
    /\ ffWriting = NoRef
    /\ f \notin gcDir
    /\ gcDir' = gcDir \cup {f}
    /\ ffWriting' = f
    /\ UNCHANGED <<gcLines, gcPc, gcActive, gcFiles, gcRemoved, NotGCFf>>

FfUpdatesPlaylist ==
    /\ ffWriting # NoRef
    /\ gcLines' = (IF Len(gcLines) < MaxLines THEN gcLines ELSE Tail(gcLines))
                     \o <<[raw |-> ffWriting, ref |-> ffWriting]>>
    /\ ffWriting' = NoRef
    /\ UNCHANGED <<gcDir, gcPc, gcActive, gcFiles, gcRemoved, NotGCFf>>

NextGCLive ==
    \/ GcReadPlaylist
    \/ GcReadPlaylistFails
    \/ GcReadDir
    \/ GcReadDirFails
    \/ GcRemove
    \/ \E f \in {SegA, SegB, SegC} : FfWritesSegment(f)
    \/ FfUpdatesPlaylist

----------------------------------------------------------------------------
Init == HLSInit /\ GCIdle /\ DmxIdle /\ WInit /\ MjInit /\ MtxInit /\ FfIdle

Next ==
    \/ \E c \in Cameras, u \in RTSPURLs : StartStream(c, u)
    \/ \E c \in Cameras, u \in RTSPURLs : StartStreamMkdirFails(c, u)
    \/ \E c \in Cameras : StopStream(c)
    \/ \E t \in CmdIds : LookPathFails(t)
    \/ \E t \in CmdIds : AssignCmd(t)
    \/ \E t \in CmdIds : CmdStartOK(t)
    \/ \E t \in CmdIds : CmdStartFails(t)
    \/ \E t \in CmdIds : MarkStarted(t)
    \/ \E t \in CmdIds : WaitReturns(t)
    \/ \E t \in CmdIds : MarkExited(t)
    \/ \E t \in CmdIds, err \in BOOLEAN : ProcessExits(t, err)
    \/ \E t \in CmdIds : ProcessWritesPlaylist(t)
    \/ TickBegin
    \/ \E c \in Cameras : TickEntry(c, FALSE)

Spec == Init /\ [][Next]_vars

(* The restart policy observed: every restart request is counted in fails *)
NextCeiling ==
    \/ \E c \in Cameras, u \in RTSPURLs : StartStream(c, u)
    \/ \E c \in Cameras : StopStream(c)
    \/ \E t \in CmdIds : LookPathFails(t)
    \/ \E t \in CmdIds : AssignCmd(t)
    \/ \E t \in CmdIds : CmdStartOK(t)
    \/ \E t \in CmdIds : CmdStartFails(t)
    \/ \E t \in CmdIds : MarkStarted(t)
    \/ \E t \in CmdIds : WaitReturns(t)
    \/ \E t \in CmdIds : MarkExited(t)
    \/ \E t \in CmdIds, err \in BOOLEAN : ProcessExits(t, err)
    \/ TickBegin
    \/ \E c \in Cameras : TickEntry(c, TRUE)

SpecCeiling == Init /\ [][NextCeiling]_vars

(* The health monitor with the clock running, for a stream that is started
   and not stopped *)
NextTimed ==
    \/ \E c \in Cameras, u \in RTSPURLs : StartStream(c, u)
    \/ \E t \in CmdIds : AssignCmd(t)
    \/ \E t \in CmdIds : CmdStartOK(t)
    \/ \E t \in CmdIds : CmdStartFails(t)
    \/ \E t \in CmdIds : MarkStarted(t)
    \/ \E t \in CmdIds : WaitReturns(t)
    \/ \E t \in CmdIds : MarkExited(t)
    \/ \E t \in CmdIds, err \in BOOLEAN : ProcessExits(t, err)
    \/ \E t \in CmdIds : ProcessWritesPlaylist(t)
    \/ Advance
    \/ TickBegin
    \/ \E c \in Cameras : TickEntry(c, FALSE)

SpecTimed == Init /\ [][NextTimed]_vars

(* The service as src/services/rtsp_service.go has it: the goroutine marks the
   entry healthy after cmd.Start; its checkStreamHealth makes the same
   liveness check, which sends every entry to restartStreamUnsafe *)
NextServices ==
    \/ \E c \in Cameras, u \in RTSPURLs : StartStream(c, u)
    \/ \E c \in Cameras : StopStream(c)
    \/ \E t \in CmdIds : LookPathFails(t)
    \/ \E t \in CmdIds : AssignCmd(t)
    \/ \E t \in CmdIds : CmdStartOK(t)
    \/ \E t \in CmdIds : CmdStartFails(t)
    \/ \E t \in CmdIds : MarkStartedServices(t)
    \/ \E t \in CmdIds : WaitReturns(t)
    \/ \E t \in CmdIds : MarkExited(t)
    \/ \E t \in CmdIds, err \in BOOLEAN : ProcessExits(t, err)
    \/ TickBegin
    \/ \E c \in Cameras : TickEntry(c, FALSE)

SpecServices == Init /\ [][NextServices]_vars

(* The service with its scheduling: a goroutine that asks for s.mu gets it
   (sync.Mutex hands the lock to a waiter that has starved), a goroutine in
   cmd.Wait returns once the process has ended, and the loop of
   checkStreamHealth runs to its end *)
HLSFairness ==
    /\ \A t \in CmdIds : SF_vars(MarkStarted(t))
    /\ \A t \in CmdIds : WF_vars(WaitReturns(t))
    /\ WF_vars(\E c \in Cameras : TickEntry(c, FALSE))

SpecFair == Spec /\ HLSFairness

InitGC == HLSInit /\ GCInit /\ DmxIdle /\ WInit /\ MjInit /\ MtxInit /\ FfIdle

NextGC ==
    \/ GcReadPlaylist
    \/ GcReadPlaylistFails
    \/ GcReadDir
    \/ GcReadDirFails
    \/ GcRemove

SpecWebRTC == Init /\ [][NextWebRTC]_vars

SpecMJPEG == Init /\ [][NextMJPEG]_vars

SpecMediaMTX == Init /\ [][NextMediaMTX]_vars

SpecGC == InitGC /\ [][NextGC]_vars

SpecGCLive == InitGC /\ [][NextGCLive]_vars

InitDemux == HLSInit /\ GCIdle /\ DmxInit /\ WInit /\ MjInit /\ MtxInit /\ FfIdle

NextDemux ==
    \/ DmxReadHeader
    \/ DmxReadSize
    \/ DmxReadData
    \/ DmxPace
    \/ \E ok \in BOOLEAN : DmxWriteSample(ok)

SpecDemux == InitDemux /\ [][NextDemux]_vars

----------------------------------------------------------------------------
(* Claims about the HLS service *)

EntryOf(c) == streams[activeStreams[c]]

(* C1: StartStream for a camera that already has an entry returns that entry's
   descriptor, starts no goroutine and leaves the registry, every StreamInfo
   and every command as they were; so a second start creates no second entry. *)
C1_StartIsIdempotent ==
    [][\A c \in Cameras :
        (lastOp'.op = "StartStream" /\ lastOp'.cam = c /\ activeStreams[c] # 0)
        => /\ lastOp'.ret = EntryOf(c).HLSURL
           /\ lastOp'.spawned = 0
           /\ activeStreams' = activeStreams
           /\ streams' = streams
           /\ cmds' = cmds]_vars

C1_Witness ==
    /\ lastOp.op = "StartStream"
    /\ lastOp.existed
    /\ lastOp.ret = HLSURLFor(7)
    /\ activeStreams[7] # 0
    /\ EntryOf(7).RTSPURL # lastOp.url
    /\ EntryOf(7).FFmpegCmd # 0
    /\ cmds[EntryOf(7).FFmpegCmd].proc = "running"

(* C2: a start directly followed by a start with another URL returns the first
   start's descriptor and keeps the first URL; a stop that follows succeeds and
   GetStreamHealth then reports NotFound; and once a camera has no entry it has
   none, whatever the goroutines of the stopped entry do, until StartStream is
   called for it again. *)
C2_StartStartStop ==
    [][\A c \in Cameras :
       /\ (lastOp'.chain = 2 /\ lastOp'.cam = c)
          => /\ lastOp'.ret = lastOp.ret
             /\ activeStreams'[c] = activeStreams[c]
             /\ EntryOf(c)'.RTSPURL = lastOp.url
             /\ lastOp'.url # lastOp.url
       /\ (lastOp.chain = 2 /\ lastOp'.op = "StopStream" /\ lastOp'.cam = c /\ lastOp.cam = c)
          => lastOp'.ret = "nil" /\ lastOp'.chain = 3
       /\ (lastOp'.op = "StopStream" /\ lastOp'.cam = c /\ lastOp'.ret = "nil")
          => /\ GetStreamHealth(c)' = <<FALSE, "NotFound">>
             /\ GetStreamURL(c)' = <<"", FALSE>>
       /\ (activeStreams[c] = 0 /\ ~(lastOp'.op = "StartStream" /\ lastOp'.cam = c))
          => /\ GetStreamHealth(c)' = <<FALSE, "NotFound">>
             /\ GetStreamURL(c)' = <<"", FALSE>>]_vars

C2_Witness ==
    /\ lastOp.chain = 3
    /\ lastOp.cam = 7
    /\ GetStreamHealth(7) = <<FALSE, "NotFound">>
    /\ \E t \in CmdIds : cmds[t].pc \in {"lookpath", "start", "mark", "wait"} /\ cmds[t].camera = 7

(* C3: StopStream returns NotFound and changes nothing when the camera has no
   entry; when it has one, StopStream returns success and removes it, also when
   no process was started and when Process.Kill fails. *)
C3_StopStream ==
    [][\A c \in Cameras :
        (lastOp'.op = "StopStream" /\ lastOp'.cam = c)
        => IF activeStreams[c] = 0
           THEN /\ lastOp'.ret = "NotFound"
                /\ UNCHANGED <<activeStreams, streams, cmds>>
           ELSE /\ lastOp'.ret = "nil"
                /\ activeStreams'[c] = 0]_vars

C3_Witness ==
    /\ lastOp.op = "StopStream"
    /\ lastOp.existed
    /\ lastOp.kill = "err"
    /\ lastOp.ret = "nil"
    /\ activeStreams[lastOp.cam] = 0

(* C4: once five restarts have been requested for an entry with no healthy tick
   in between, a further health tick starts no goroutine for it and leaves it
   unhealthy. *)
C4_RestartCeiling ==
    [][\A c \in Cameras :
        (/\ lastOp'.op = "tick"
         /\ lastOp'.cam = c
         /\ fails[activeStreams[c]] >= MaxRestartAttempts)
        => /\ lastOp'.spawned = 0
           /\ ~EntryOf(c)'.IsHealthy]_vars

(* C5: while an entry is unhealthy its restart counter does not decrease,
   except in the health tick that finds it healthy. *)
C5_CounterMonotone ==
    [][\A c \in Cameras :
        (/\ activeStreams[c] # 0
         /\ activeStreams'[c] = activeStreams[c]
         /\ ~EntryOf(c).IsHealthy
         /\ ~(lastOp'.op = "tick" /\ lastOp'.cam = c /\ lastOp'.verdict = "healthy"))
        => EntryOf(c)'.RestartCount >= EntryOf(c).RestartCount]_vars

(* the entry's process runs and the goroutine has recorded its start in LastUpdate *)
StartedAndAlive(c) ==
    /\ activeStreams[c] # 0
    /\ EntryOf(c).FFmpegCmd # 0
    /\ cmds[EntryOf(c).FFmpegCmd].proc = "running"
    /\ cmds[EntryOf(c).FFmpegCmd].pc = "wait"

(* C6: a health tick for an entry whose process is alive and whose playlist
   does not exist restarts nothing when less than 30 seconds have passed since
   the process was started, and restarts when 30 seconds or more have passed. *)
C6_GracePeriod ==
    [][\A c \in Cameras :
        (/\ lastOp'.op = "tick"
         /\ lastOp'.cam = c
         /\ StartedAndAlive(c)
         /\ playlist[c] < 0)
        => IF EntryOf(c).LastUpdate < GracePeriod
           THEN lastOp'.restarts = 0
           ELSE lastOp'.restarts = 1]_vars

(* C7: a health tick for an entry with restart counter 0, a live process and a
   playlist modified 25 seconds ago restarts it once: one kill, one goroutine,
   counter 1; and no iteration of the health check restarts its entry twice. *)
C7_StaleRestartsOnce ==
    [][\A c \in Cameras :
        (lastOp'.op = "tick" /\ lastOp'.cam = c)
        => /\ lastOp'.restarts <= 1
           /\ lastOp'.spawned <= lastOp'.restarts
           /\ (/\ EntryOf(c).RestartCount = 0
               /\ EntryOf(c).FFmpegCmd # 0
               /\ cmds[EntryOf(c).FFmpegCmd].proc = "running"
               /\ playlist[c] = 25)
              => /\ lastOp'.restarts = 1
                 /\ lastOp'.kills = 1
                 /\ lastOp'.spawned = 1
                 /\ cmds'[EntryOf(c).FFmpegCmd].proc # "running"
                 /\ EntryOf(c)'.RestartCount = 1]_vars

C7_Witness ==
    /\ lastOp.op = "tick"
    /\ lastOp.proc = "running"
    /\ playlist[lastOp.cam] = 25
    /\ lastOp.restarts = 1
    /\ lastOp.kills = 1
    /\ lastOp.spawned = 1
    /\ EntryOf(lastOp.cam).RestartCount = 1

(* C11: every running transcoder process is the process of the exec.Cmd that
   an entry of the registry holds in FFmpegCmd; so once StopStream has removed
   an entry, no process of that entry runs or is started. *)
C11_ProcessOwned ==
    \A t \in CmdIds :
        cmds[t].proc = "running"
        => \E c \in Cameras : /\ activeStreams[c] # 0
                              /\ EntryOf(c).FFmpegCmd = t

(* C15: when exec.LookPath fails in the launch goroutine, of a first start or
   of a restart, the camera's key is deleted and no process is started; the
   camera then has no entry, so GetStreamHealth returns NotFound, and a health
   tick starts goroutines only for StreamInfo objects the registry holds. *)
C15_UnresolvableIsRemoved ==
    [][/\ \A c \in Cameras :
            (lastOp'.op = "lookPathFails" /\ lastOp'.cam = c)
            => /\ activeStreams'[c] = 0
               /\ GetStreamHealth(c)' = <<FALSE, "NotFound">>
               /\ \A t \in CmdIds : cmds'[t].proc = "running" => cmds[t].proc = "running"
               /\ \A t \in CmdIds : cmds'[t].pc = "lookpath" => cmds[t].pc = "lookpath"
       /\ lastOp'.op = "tick"
          => \A t \in CmdIds :
                (cmds'[t].pc = "lookpath" /\ cmds[t].pc # "lookpath")
                => \E c \in Cameras : activeStreams[c] = cmds'[t].stream]_vars

C15_Witness ==
    /\ lastOp.op = "lookPathFails"
    /\ activeStreams[lastOp.cam] = 0
    /\ \E s \in StreamIds : streams[s].CameraID = lastOp.cam /\ streams[s].RestartCount > 0

(* C16: when cmd.Start fails in the launch goroutine, the StreamInfo it was
   launching for is in the registry no longer, so that no health tick restarts
   it. *)
C16_LaunchFailureTerminal ==
    [][\A t \in CmdIds :
        (cmds[t].pc = "start" /\ cmds'[t].pc \notin {"start", "mark"})
        => \A c \in Cameras : activeStreams'[c] # cmds[t].stream]_vars

(* the health tick asked for a restart of camera c and restartStreamUnsafe
   returned at the ceiling *)
RestartRefused(c) ==
    /\ lastOp.op = "tick"
    /\ lastOp.cam = c
    /\ lastOp.restarts = 1
    /\ lastOp.spawned = 0

(* C17: once a restart of a camera's entry was refused at the ceiling of 5,
   the camera keeps an entry whose health flag is false and GetStreamHealth
   answers (false, no error) until StopStream is called for the camera: no
   step that follows the refusal, other than that StopStream, ends this. *)
C17_ExhaustedStays ==
    [][\A c \in Cameras :
        (/\ RestartRefused(c)
         /\ ~(lastOp'.op = "StopStream" /\ lastOp'.cam = c))
        => GetStreamHealth(c)' = <<FALSE, "nil">>]_vars

(* the transcoder processes started for StreamInfo s that have not ended *)
RunningFor(s) == {t \in CmdIds : cmds[t].stream = s /\ cmds[t].proc = "running"}

(* C19: at any time at most one transcoder process started for an entry of
   the registry is running. *)
C19_OneProcessPerEntry ==
    \A c \in Cameras :
        activeStreams[c] # 0 => Cardinality(RunningFor(activeStreams[c])) <= 1

(* the fields of a StreamInfo that s.mu is meant to protect *)
GuardedFields(st, s) == <<st[s].IsHealthy, st[s].RestartCount, st[s].FFmpegCmd>>

(* C20: the health flag, the restart counter and the process handle of a
   StreamInfo are written only by the holder of s.mu: while checkStreamHealth
   holds the lock, no step but its own changes them. *)
C20_WritesUnderLock ==
    [][\A s \in StreamIds :
        (/\ mu = "tick"
         /\ streams[s] # NoStream
         /\ streams'[s] # NoStream
         /\ GuardedFields(streams', s) # GuardedFields(streams, s))
        => lastOp'.op = "tick"]_vars

(* the goroutine of command t leaves cmd.Wait and returns in this step *)
WaitTaskFinishes(t) ==
    /\ cmds[t].pc \in {"wait", "exitmark"}
    /\ cmds'[t].pc \notin {"wait", "exitmark"}

(* C21: when the goroutine waiting on a transcoder process returns, after an
   exit with an error or a clean one, the health flag of the StreamInfo it
   ran for is false, and the goroutine started no new launch. *)
C21_ExitMarksUnhealthy ==
    [][\A t \in CmdIds :
        WaitTaskFinishes(t)
        => /\ ~streams'[cmds[t].stream].IsHealthy
           /\ \A u \in CmdIds : cmds'[u].pc = "lookpath" => cmds[u].pc = "lookpath"]_vars

(* C22: the health flag of a StreamInfo is false when StartStream creates it
   and turns true only in an iteration of checkStreamHealth that found the
   playlist fresh: no step of the launch goroutine, a successful cmd.Start
   included, makes GetStreamHealth answer true. *)
C22_HealthIsEarned ==
    [][\A s \in StreamIds :
        (~streams[s].IsHealthy /\ streams'[s].IsHealthy)
        => /\ lastOp'.op = "tick"
           /\ lastOp'.verdict = "healthy"]_vars

(* C23: a health tick for an entry whose process is alive and whose playlist
   exists and was modified within the last 20 seconds marks the entry
   healthy, sets LastUpdate to the playlist's modification time and restarts
   nothing: no kill, no restart, the counter as it was. *)
C23_FreshIsHealthy ==
    [][\A c \in Cameras :
        (/\ lastOp'.op = "tick"
         /\ lastOp'.cam = c
         /\ EntryOf(c).FFmpegCmd # 0
         /\ cmds[EntryOf(c).FFmpegCmd].proc = "running"
         /\ playlist[c] >= 0
         /\ playlist[c] <= StaleAfter)
        => /\ EntryOf(c)'.IsHealthy
           /\ EntryOf(c)'.LastUpdate = playlist[c]
           /\ lastOp'.kills = 0
           /\ lastOp'.restarts = 0
           /\ EntryOf(c)'.RestartCount = EntryOf(c).RestartCount]_vars

(* C24: a health tick for an entry that has no process handle, or whose
   process has ended, calls restartStreamUnsafe in that tick and does not
   mark the entry healthy, whatever the age of its playlist. *)
C24_DeadIsRestarted ==
    [][\A c \in Cameras :
        (/\ lastOp'.op = "tick"
         /\ lastOp'.cam = c
         /\ \/ ~ProcessSet(cmds, EntryOf(c).FFmpegCmd)
            \/ cmds[EntryOf(c).FFmpegCmd].proc \in {"exited", "reaped"})
        => /\ lastOp'.restarts = 1
           /\ lastOp'.verdict \in {"noproc", "dead"}
           /\ ~EntryOf(c)'.IsHealthy]_vars

C24_Witness ==
    /\ lastOp.op = "tick"
    /\ lastOp.proc \in {"exited", "reaped"}
    /\ lastOp.restarts = 1
    /\ playlist[lastOp.cam] >= 0
    /\ playlist[lastOp.cam] <= StaleAfter
    /\ activeStreams[lastOp.cam] # 0
    /\ ~EntryOf(lastOp.cam).IsHealthy

(* the goroutines started in this step *)
Launched == {u \in CmdIds : cmds'[u].pc = "lookpath" /\ cmds[u].pc # "lookpath"}

(* C25: restartStreamUnsafe kills the process of the entry's handle when
   there is one, whatever the counter; with the counter at 5 it sets the
   health flag false, leaves the counter and starts nothing; below 5 it adds
   one to the counter, sets the health flag false and starts one goroutine,
   for this StreamInfo, whose URL and output path are as they were. *)
C25_RestartSteps ==
    [][\A c \in Cameras :
        (lastOp'.op = "tick" /\ lastOp'.cam = c /\ lastOp'.restarts = 1)
        => LET s == activeStreams[c]
               t == streams[s].FFmpegCmd
           IN  /\ IF ProcessSet(cmds, t)
                  THEN lastOp'.kills = 1 /\ cmds'[t].proc \notin {"nil", "running"}
                  ELSE lastOp'.kills = 0
               /\ ~streams'[s].IsHealthy
               /\ streams'[s].RTSPURL = streams[s].RTSPURL
               /\ streams'[s].HLSURL = streams[s].HLSURL
               /\ IF streams[s].RestartCount >= MaxRestartAttempts
                  THEN /\ streams'[s].RestartCount = streams[s].RestartCount
                       /\ lastOp'.spawned = 0
                       /\ Launched = {}
                  ELSE /\ streams'[s].RestartCount = streams[s].RestartCount + 1
                       /\ lastOp'.spawned = 1
                       /\ Cardinality(Launched) = 1
                       /\ \A u \in Launched : /\ cmds'[u].stream = s
                                               /\ cmds'[u].camera = c]_vars

C25_Witness ==
    /\ lastOp.op = "tick"
    /\ lastOp.restarts = 1
    /\ lastOp.kills = 1
    /\ lastOp.spawned = 0
    /\ activeStreams[lastOp.cam] # 0
    /\ EntryOf(lastOp.cam).RestartCount = MaxRestartAttempts

(* C32: a transcoder process that was started has the goroutine that
   started it on its way to cmd.Wait or in it, so that a process that has
   ended, by Process.Kill in StopStream or restartStreamUnsafe or by itself,
   is waited on later and does not stay unreaped. *)
C32_KilledIsReaped ==
    /\ [](\A t \in CmdIds :
            cmds[t].proc \in {"running", "exited"} => cmds[t].pc \in {"mark", "wait"})
    /\ \A t \in CmdIds : (cmds[t].proc = "exited") ~> (cmds[t].proc # "exited")

C32_Witness ==
    /\ lastOp.op = "tick"
    /\ lastOp.kills = 1
    /\ lastOp.proc = "running"
    /\ \E t \in CmdIds : /\ cmds[t].proc = "exited"
                          /\ cmds[t].exitErr
                          /\ cmds[t].pc = "mark"

(* C40: the restart counter of every entry is between 0 and 5 in every
   state: restartStreamUnsafe increments it only below 5, and the launch
   goroutine and StartStream only set it to 0. *)
C40_RestartCountInRange ==
    \A s \in StreamIds : streams[s].RestartCount \in 0..MaxRestartAttempts

C40_Witness ==
    /\ lastOp.op = "tick"
    /\ lastOp.restarts = 1
    /\ lastOp.spawned = 0
    /\ \E c \in Cameras : /\ activeStreams[c] # 0
                          /\ streams[activeStreams[c]].RestartCount = MaxRestartAttempts

----------------------------------------------------------------------------
(* Claims about the segment garbage collector *)

Referenced == {gcLines[i].ref : i \in 1..Len(gcLines)} \ {NoRef}

(* C8: whatever the playlist and the directory hold, cleanupOldSegments removes
   only segment files the playlist does not refer to: no file a line of the
   playlist names, and no file that is not a segment. *)
C8_GCKeepsReferenced ==
    /\ gcRemoved \cap Referenced = {}
    /\ gcRemoved \subseteq {SegA, SegB, SegC}
    /\ gcPc = "done" => gcDir \cap gcRemoved = {}
    /\ gcPc \in {"read", "list", "remove"} => gcRemoved = {}

C8_Witness ==
    /\ gcPc = "done"
    /\ gcRemoved = {SegC}
    /\ gcDir = {SegA, SegB, PlaylistName}
    /\ \E i \in 1..Len(gcLines) : gcLines[i].raw = <<"d", "/">> \o SegB
    /\ \E i \in 1..Len(gcLines) : gcLines[i].raw = <<" ">> \o SegA \o <<"CR">>

(* C26: when the playlist cannot be read, cleanupOldSegments returns to the
   health tick at once: it lists no directory, removes no file, leaves the
   directory as it was, and has no error to report. *)
C26_UnreadablePlaylistSkips ==
    [][(gcPc = "read" /\ gcPc' \notin {"read", "list"})
        => /\ gcPc' = "done"
           /\ gcRemoved' = {}
           /\ gcDir' = gcDir
           /\ gcFiles' = {}
           /\ gcActive' = {}]_vars

C26_Witness ==
    /\ gcPc = "done"
    /\ gcActive = {}
    /\ \E i \in 1..Len(gcLines) : gcLines[i].ref = SegB
    /\ gcDir = {SegA, SegC, PlaylistName}
    /\ gcRemoved = {}

(* C27: while the transcoder writes segment files and then puts them in the
   playlist, cleanupOldSegments removes no file that the playlist names when
   it is removed, and none that the transcoder has written and is about to
   put in the playlist. *)
C27_GCKeepsLiveSegments ==
    [][\A f \in gcRemoved' \ gcRemoved :
        /\ f \notin Referenced
        /\ f # ffWriting]_vars

----------------------------------------------------------------------------
(* Claims about the frame demuxer *)

WellFormed(in) == in.hdr = "ok" /\ in.cut = 0

NonZero(recs) == SelectSeq(recs, LAMBDA r : r # <<>>)

Delivered == [i \in 1..Len(dmxSink) |-> dmxSink[i].data]

IsPrefix(s, t) == Len(s) <= Len(t) /\ s = SubSeq(t, 1, Len(s))

(* C9: for a valid header followed by whole records, the frames handed to the
   sink are at every moment the first non-empty payloads of the stream, in
   stream order, and when the loop has ended they are all of them: N frames
   for N records of non-zero length, none for a record of length zero. *)
C9_DemuxDeliversAll ==
    WellFormed(dmxInput)
    => /\ IsPrefix(Delivered, NonZero(dmxInput.recs))
       /\ dmxPc = "stopped" => Delivered = NonZero(dmxInput.recs)

C9_Witness ==
    /\ dmxPc = "stopped"
    /\ dmxInput = [hdr |-> "ok", recs |-> <<<<1>>, <<>>, <<0, 0, 0, 0, 7>>>>, cut |-> 0]
    /\ Delivered = <<<<1>>, <<0, 0, 0, 0, 7>>>>
    /\ \A i \in 1..Len(dmxSink) : dmxSink[i].ok

(* C10: two consecutive calls of WriteSample are at least one frameDuration
   apart, whether records of length zero lie between them and whether the
   first of them failed. *)
C10_Pacing ==
    \A i \in 1..(Len(dmxSink) - 1) : dmxSink[i + 1].at - dmxSink[i].at >= FrameDuration

C10_Witness ==
    /\ dmxInput = [hdr |-> "ok", recs |-> <<<<1>>, <<>>, <<1>>>>, cut |-> 0]
    /\ Len(dmxSink) = 2
    /\ ~dmxSink[1].ok
    /\ dmxSink[1].at = SlowRead
    /\ dmxSink[2].at = dmxSink[1].at + FrameDuration

(* C28: when the stream is shorter than the 32 bytes of the header, or its
   first four bytes are not the signature, the demuxer stops after the header
   and hands no frame to the sink, whatever follows. *)
C28_BadHeaderDeliversNothing ==
    dmxInput.hdr # "ok"
    => /\ dmxSink = <<>>
       /\ dmxPc \in {"header", "stopped"}

C28_Witness ==
    /\ dmxInput.hdr = "badsig"
    /\ Len(dmxInput.recs) = MaxRecords
    /\ \A i \in 1..Len(dmxInput.recs) : dmxInput.recs[i] # <<>>
    /\ dmxPc = "stopped"
    /\ dmxSink = <<>>

(* the records of a stream that are whole: bytes cut off the end leave the
   last record short, of length bytes or of payload *)
WholeRecords(in) ==
    IF in.cut > 0 /\ in.recs # <<>> THEN SubSeq(in.recs, 1, Len(in.recs) - 1) ELSE in.recs

(* C29: when the stream ends inside a record, the demuxer leaves its loop
   without handing the short record to the sink: what it delivered is at
   every moment a run of whole payloads of the declared lengths, and when it
   has stopped, those of all whole records. *)
C29_ShortRecordDropped ==
    (dmxInput.hdr = "ok" /\ dmxInput.cut > 0)
    => /\ IsPrefix(Delivered, NonZero(WholeRecords(dmxInput)))
       /\ dmxPc = "stopped" => Delivered = NonZero(WholeRecords(dmxInput))

C29_Witness ==
    /\ dmxInput.hdr = "ok"
    /\ dmxInput.cut = 1
    /\ dmxInput.recs = <<<<1>>, <<0, 0, 0, 0, 7>>>>
    /\ dmxPc = "stopped"
    /\ Delivered = <<<<1>>>>

(* a call of track.WriteSample returned an error *)
DeliveryFailed == \E i \in 1..Len(dmxSink) : ~dmxSink[i].ok

(* C30: an error of track.WriteSample does not end the loop: after it the
   demuxer goes back to reading, and when it has stopped the stream is read
   to its end and every whole record after the failed one was handed to the
   sink as well. *)
C30_DeliveryFailureNotFatal ==
    (dmxInput.hdr = "ok" /\ DeliveryFailed)
    => /\ dmxPc \in {"size", "data", "pace", "write", "stopped"}
       /\ dmxPc = "stopped"
          => /\ dmxBytes = <<>>
             /\ Delivered = NonZero(WholeRecords(dmxInput))

C30_Witness ==
    /\ dmxPc = "stopped"
    /\ Len(dmxSink) = MaxRecords
    /\ ~dmxSink[1].ok
    /\ dmxSink[2].ok
    /\ ~dmxSink[3].ok
    /\ dmxBytes = <<>>

----------------------------------------------------------------------------
(* Claims about the WebRTC service *)

(* C12: a StartStream for a camera that has an entry, active or still
   starting, keeps that entry in the registry and starts no goroutine, so that
   one transcoder is launched per camera until StopStream. *)
C12_StartedOnce ==
    [][\A c \in Cameras :
        (wLast'.op = "StartStream" /\ wLast'.cam = c /\ wActive[c] # 0)
        => /\ wActive'[c] = wActive[c]
           /\ wLast'.spawned = 0]_vars

(* C13: when a run of HandleWebSocket has returned and the callbacks of its
   peer connection have run, its connection is in no session set, whichever
   way the run ended. *)
C13_SessionRemoved ==
    \A k \in Conns :
        (wSess[k].pc = "done" /\ wSess[k].cb = 0)
        => \A s \in WStreamIds : k \notin wStreams[s].PeerConnections

(* C31: the step in which readAndSendVP8Frames leaves its loop changes
   nothing but the demuxer's own position: the registry, the process, the
   active flag, the track and the session set of its stream, every other
   stream and every run of HandleWebSocket are as they were. *)
C31_DemuxEndChangesNothing ==
    [][\A s \in WStreamIds :
        (wStreams[s].demux = "running" /\ wStreams'[s].demux # "running")
        => /\ wActive' = wActive
           /\ wSess' = wSess
           /\ \A x \in WStreamIds \ {s} : wStreams'[x] = wStreams[x]
           /\ \/ wStreams'[s] = [wStreams[s] EXCEPT !.demux = "stopped"]
              \/ /\ wStreams'[s] = NoWStream
                 /\ s \notin WLive(wActive, [wStreams EXCEPT ![s].demux = "stopped"], wSess)]_vars

C31_Witness ==
    \E c \in Cameras :
        /\ wActive[c] # 0
        /\ wStreams[wActive[c]].demux = "stopped"
        /\ wStreams[wActive[c]].proc = "exited"
        /\ wStreams[wActive[c]].IsActive
        /\ wStreams[wActive[c]].PeerConnections # {}

(* C33: StopStream of the WebRTC service ends a stream only by killing the
   process and deleting the registry key: a viewer session that is open
   before a StopStream that finds the entry is still open after it, and is
   left to end by itself. *)
C33_StopLeavesSessions ==
    [][(wLast'.op = "StopStream" /\ wLast'.ret = "nil")
       => \A k \in Conns :
             wSess[k].pcState \notin {"none", "closed"} => wSess'[k].pcState = wSess[k].pcState]_vars

(* C34: HandleWebSocket registers a peer connection in
   stream.PeerConnections only when its wait for the stream ended with the
   stream active and its video track present; a handler whose ten polls all
   found the stream not ready registers none. *)
C34_RegisteredOnlyWhenReady ==
    [][\A k \in Conns, s \in WStreamIds :
          (k \notin wStreams[s].PeerConnections /\ k \in wStreams'[s].PeerConnections)
          => wSess[k].ready]_vars

(* C35: a step that adds a peer connection to stream.PeerConnections or
   deletes one from it leaves the registry and the stream's process handle,
   active flag and video track as they were; only the set changes (a stream
   record that nothing refers to any more after the deletion is dropped). *)
C35_AttachDetachOnlySessions ==
    [][\A s \in WStreamIds :
          wStreams'[s].PeerConnections # wStreams[s].PeerConnections
          => /\ wActive' = wActive
             /\ \A x \in WStreamIds \ {s} : wStreams'[x] = wStreams[x]
             /\ \/ wStreams'[s] = [wStreams[s] EXCEPT
                                       !.PeerConnections = wStreams'[s].PeerConnections]
                \/ /\ wStreams'[s] = NoWStream
                   /\ s \notin WLive(wActive, wStreams, wSess')]_vars

C35_Witness ==
    /\ wLast.ret = "callback"
    /\ \E c \in Cameras : /\ wActive[c] # 0
                          /\ wStreams[wActive[c]].IsActive
                          /\ wStreams[wActive[c]].VideoTrack
                          /\ wStreams[wActive[c]].proc = "running"
                          /\ wStreams[wActive[c]].PeerConnections = {}

(* C36: every operation of the WebRTC service that reads or writes
   s.activeStreams does so holding s.mu, the lookup of HandleWebSocket
   included. *)
C36_RegistryUnderLock ==
    wLast.op \in {"StartStream", "StopStream", "HandleWebSocket"} => wLast.lock \in {"Lock", "RLock"}

----------------------------------------------------------------------------
(* Claims about the MJPEG service *)

(* C14: once mjpegReader.Close has killed and waited, and after it has
   returned, the process started for that reader does not run, whatever other
   readers of the camera are open and whether StopStream came first; and Close
   ends no process of another reader. *)
C14_CloseEndsOwnProcess ==
    /\ [](\A r \in Readers :
            mjReaders[r].pc \in {"unmark", "closed"} => mjReaders[r].proc # "running")
    /\ [][\A r \in Readers :
            mjReaders[r].pc = "open"
            => \A q \in Readers \ {r} :
                  (mjReaders[q].proc = "running" /\ mjReaders'[r].pc = "unmark")
                  => mjReaders'[q].proc = "running"]_vars

C14_Witness ==
    /\ mjLast.op = "Close"
    /\ mjActive[mjLast.cam] = 0
    /\ \E r, q \in Readers :
          /\ r # q
          /\ mjReaders[r].pc = "closed"
          /\ mjReaders[r].proc = "reaped"
          /\ mjReaders[q].pc = "open"
          /\ mjReaders[q].proc = "running"
          /\ mjReaders[q].stream = mjReaders[r].stream

(* C39: when StopStream of the MJPEG service has found the entry of a
   camera and returned, no process that a GetStreamReader started for that
   entry is running. *)
C39_StopEndsEveryReaderProcess ==
    [][\A c \in Cameras :
          (mjLast'.op = "StopStream" /\ mjLast'.cam = c /\ mjLast'.ret = "nil" /\ mjActive[c] # 0)
          => \A r \in Readers :
                (mjReaders[r].stream = mjActive[c] /\ mjReaders[r].proc = "running")
                => mjReaders'[r].proc # "running"]_vars

----------------------------------------------------------------------------
(* Claims about the MediaMTX adapter *)

FailedOutcomes == {TransportError} \cup {o \in Statuses : o < 200 \/ o > 299}

(* the call sent a request and the request failed *)
MtxFailed(op) == op.requests > 0 /\ op.outcome \in FailedOutcomes

(* C18: a StartStream or StopStream whose request met a transport error or a
   status outside 2xx returns an error after that one request and leaves
   activePaths as it was: the failed start records no path for the camera,
   the failed stop keeps the camera's path. *)
C18_RemoteFailureSurfaced ==
    [][\A c \in MtxCameras :
        /\ (mtxLast'.op = "StartStream" /\ mtxLast'.cam = c /\ MtxFailed(mtxLast'))
           => /\ mtxLast'.ret = <<"", "error">>
              /\ mtxLast'.requests = 1
              /\ activePaths' = activePaths
              /\ activePaths'[c] = NoPath
        /\ (mtxLast'.op = "StopStream" /\ mtxLast'.cam = c /\ MtxFailed(mtxLast'))
           => /\ mtxLast'.ret = "error"
              /\ mtxLast'.requests = 1
              /\ activePaths' = activePaths
              /\ activePaths'[c] = GetPathName(c)]_vars

C18_Witness ==
    /\ mtxLast.op = "StopStream"
    /\ mtxLast.outcome = 500
    /\ mtxLast.ret = "error"
    /\ activePaths[mtxLast.cam] = GetPathName(mtxLast.cam)
    /\ GetPathName(mtxLast.cam) \in mtxRemote

(* C37: StartStream of a camera whose path is in activePaths sends no request,
   returns the URL of that path and leaves activePaths alone; of a camera
   without one it sends one request and records the path exactly when the
   answer is 200 or 201. A camera enters activePaths in no other way, so
   between two StopStream calls at most one upsert of a camera is answered
   with success, however many StartStream calls there are. *)
C37_OneSuccessfulUpsert ==
    [][\A c \in MtxCameras :
          /\ (mtxLast'.op = "StartStream" /\ mtxLast'.cam = c)
             => IF activePaths[c] # NoPath
                THEN /\ mtxLast'.requests = 0
                     /\ mtxLast'.ret = <<MtxHLSURL(GetPathName(c)), "nil">>
                     /\ activePaths' = activePaths
                     /\ mtxRemote' = mtxRemote
                ELSE /\ mtxLast'.requests <= 1
                     /\ activePaths'[c] # NoPath
                           <=> (mtxLast'.requests = 1 /\ mtxLast'.outcome \in {200, 201})
                     /\ \A x \in MtxCameras \ {c} : activePaths'[x] = activePaths[x]
          /\ (activePaths[c] = NoPath /\ activePaths'[c] # NoPath)
             => /\ mtxLast'.op = "StartStream"
                /\ mtxLast'.cam = c
                /\ mtxLast'.requests = 1
                /\ mtxLast'.outcome \in {200, 201}
                /\ activePaths'[c] = GetPathName(c)
                /\ mtxLast'.ret = <<MtxHLSURL(GetPathName(c)), "nil">>]_vars

C37_Witness ==
    /\ mtxLast.op = "StartStream"
    /\ mtxLast.existed
    /\ mtxLast.requests = 0
    /\ activePaths[mtxLast.cam] = GetPathName(mtxLast.cam)
    /\ mtxLast.ret = <<MtxHLSURL(GetPathName(mtxLast.cam)), "nil">>

(* C38: GetStreamHealth of a camera without a path in activePaths returns
   NotFound; of a camera with one, when the listing request is answered 200
   with a body that decodes, it returns true exactly when the path's name is
   among the paths the server has; it never changes activePaths. *)
C38_HealthIsMembership ==
    [][mtxLast'.op = "GetStreamHealth"
       => /\ activePaths' = activePaths
          /\ ~mtxLast'.existed => mtxLast'.ret = <<FALSE, "NotFound">>
          /\ (mtxLast'.existed /\ mtxLast'.ret[2] = "nil")
             => mtxLast'.ret[1] = (GetPathName(mtxLast'.cam) \in mtxRemote)]_vars

====
